---- MODULE Spec2Model ----
(***************************************************************************)
(* Model of weave-lab/cachin: the cached value persist.Data, the           *)
(* read-through wrappers cache.InMemory and cache.Func (cache.OnDisk is    *)
(* Func over an FsStore), and the filesystem Store behind them.            *)
(*                                                                         *)
(* Time is a discrete clock `now`; the zero time.Time is ZeroTime.  A      *)
(* cached value of type string is a sequence of characters, and its JSON   *)
(* encoding is that sequence between two quote characters.                 *)
(***************************************************************************)
EXTENDS Integers, Sequences, FiniteSets, TLC

\* ---------------------------------------------------------------- bounds
MaxTime == 4
MaxTTL == 2
MaxCalls == 3
\* the most stores a MultiStore is configured with
MaxStores == 2

\* ------------------------------------------------------ program constants
\* persist.Forever: the TTL that never expires
Forever == 0
\* time.Time{}: the zero timestamp, lastSet of a value that was never set
ZeroTime == 0

\* time.Since of the zero time saturates at the largest Duration, which is
\* larger than every TTL and every age the clock can produce
MaxDuration == MaxTime + MaxTTL + 1

\* ---------------------------------------------------------------- errors
\* an error is its sentinel kind and the message wrapped with it
NilErr == [kind |-> "nil", msg |-> ""]
ErrExternalCache == "ErrExternalCache"
ErrNotSerializable == "ErrNotSerializable"
ErrFailedKey == "ErrFailedKey"
Wrap(kind, msg) == [kind |-> kind, msg |-> msg]
\* the error a failing producer returns
FnErr == [kind |-> "fn", msg |-> "failed"]
\* the error of a failing filesystem operation
IOErr == [kind |-> "io", msg |-> "io failure"]

\* ------------------------------------------------------------ value type
Quote == "\""
Empty == <<>>
\* results the producer can return
FnValues == {<<"a">>, <<"b">>}
\* outcomes of one producer invocation: a value, or a failure
FnOutcomes == [ok : {TRUE}, v : FnValues] \cup {[ok |-> FALSE, v |-> Empty]}

\* json.Marshal of a string value
Marshal(v) == <<Quote>> \o v \o <<Quote>>

\* Unmarshal that checks the quotes but does not strip them
UnmarshalRaw(raw) ==
    IF /\ Len(raw) >= 2
       /\ raw[1] = Quote
       /\ raw[Len(raw)] = Quote
       /\ \A i \in 2..(Len(raw) - 1) : raw[i] # Quote
    THEN [err |-> NilErr, v |-> raw]
    ELSE [err |-> Wrap("json", "invalid"), v |-> Empty]

\* json.Unmarshal into a string: the bytes must be one quoted string
Unmarshal(raw) ==
    IF /\ Len(raw) >= 2
       /\ raw[1] = Quote
       /\ raw[Len(raw)] = Quote
       /\ \A i \in 2..(Len(raw) - 1) : raw[i] # Quote
    THEN [err |-> NilErr, v |-> SubSeq(raw, 2, Len(raw) - 1)]
    ELSE [err |-> Wrap("json", "invalid"), v |-> Empty]

\* Data.Bytes: a Serializable value's own Bytes() may fail (bytesFails);
\* every other value is JSON marshalled
Bytes(v, bytesFails) ==
    IF bytesFails THEN [err |-> Wrap("bytes", "failed"), raw |-> <<>>]
    ELSE [err |-> NilErr, raw |-> Marshal(v)]

\* Data.FromBytes
FromBytes(raw) == Unmarshal(raw)

\* ------------------------------------------------------- filesystem store
\* the file of one key: its bytes and modification time; no file at all is
\* NoFile
NoFile == [raw |-> <<>>, modTime |-> ZeroTime]

\* FsStore.Get: a missing file is a clean miss (nil, zero time, nil)
StoreGet(s, getFails) ==
    IF getFails THEN [raw |-> <<>>, lastUpdate |-> ZeroTime, err |-> IOErr]
    ELSE [raw |-> s.raw, lastUpdate |-> s.modTime, err |-> NilErr]

\* a Set that writes the bytes inside an envelope
StoreSetEnvelope(s, raw, t, setFails) ==
    IF setFails THEN [s |-> s, err |-> IOErr]
    ELSE [s |-> [raw |-> <<"{">> \o raw \o <<"}">>, modTime |-> t], err |-> NilErr]

\* FsStore.Set: writes the bytes exactly; the write time becomes the
\* file's modification time
StoreSet(s, raw, t, setFails) ==
    IF setFails THEN [s |-> s, err |-> IOErr]
    ELSE [s |-> [raw |-> raw, modTime |-> t], err |-> NilErr]

\* ------------------------------------------------------------ persist.Data
NewData == [value |-> Empty, lastSet |-> ZeroTime]

IsUnset(d) == d.lastSet = ZeroTime

Age(d, t) == IF d.lastSet = ZeroTime THEN MaxDuration ELSE t - d.lastSet

\* IsExpired with the comparison made inclusive
IsExpiredInclusive(d, ttl, t) == IF ttl = Forever THEN FALSE ELSE Age(d, t) >= ttl

\* IsExpired without the Forever case
IsExpiredNoForever(d, ttl, t) == Age(d, t) > ttl

\* Data.IsExpired
IsExpired(d, ttl, t) == IF ttl = Forever THEN FALSE ELSE Age(d, t) > ttl

\* ResetTTL that also drops the value
ResetTTLDropsValue(d, t) == [value |-> Empty, lastSet |-> t]

\* Data.ResetTTL
ResetTTL(d, t) == [d EXCEPT !.lastSet = t]

Get(d) == d.value

\* Load that takes a clean miss (zero timestamp, no error) as nothing to load
LoadMissOk(d, hasSt, s, getFails) ==
    IF IsUnset(d) /\ hasSt
    THEN LET g == StoreGet(s, getFails) IN
         IF g.err # NilErr
         THEN [d |-> d, err |-> Wrap(ErrExternalCache, g.err.msg), read |-> TRUE]
         ELSE IF g.lastUpdate = ZeroTime
         THEN [d |-> d, err |-> NilErr, read |-> TRUE]
         ELSE LET tmp == FromBytes(g.raw) IN
              IF tmp.err # NilErr
              THEN [d |-> d, err |-> Wrap(ErrNotSerializable, tmp.err.msg),
                    read |-> TRUE]
              ELSE [d |-> [value |-> tmp.v, lastSet |-> g.lastUpdate],
                    err |-> NilErr, read |-> TRUE]
    ELSE [d |-> d, err |-> NilErr, read |-> FALSE]

\* Load that reads the Store also when the value is already set
LoadAlways(d, hasSt, s, getFails) ==
    IF hasSt
    THEN LET g == StoreGet(s, getFails) IN
         IF g.err # NilErr
         THEN [d |-> d, err |-> Wrap(ErrExternalCache, g.err.msg), read |-> TRUE]
         ELSE IF g.lastUpdate = ZeroTime
         THEN [d |-> d, err |-> Wrap(ErrExternalCache, "last update was not set"),
               read |-> TRUE]
         ELSE LET tmp == FromBytes(g.raw) IN
              IF tmp.err # NilErr
              THEN [d |-> d, err |-> Wrap(ErrNotSerializable, tmp.err.msg),
                    read |-> TRUE]
              ELSE [d |-> [value |-> tmp.v, lastSet |-> g.lastUpdate],
                    err |-> NilErr, read |-> TRUE]
    ELSE [d |-> d, err |-> NilErr, read |-> FALSE]

\* Load that takes the Store's timestamp before it decodes the bytes
LoadStampFirst(d, hasSt, s, getFails) ==
    IF IsUnset(d) /\ hasSt
    THEN LET g == StoreGet(s, getFails) IN
         IF g.err # NilErr
         THEN [d |-> d, err |-> Wrap(ErrExternalCache, g.err.msg), read |-> TRUE]
         ELSE IF g.lastUpdate = ZeroTime
         THEN [d |-> d, err |-> Wrap(ErrExternalCache, "last update was not set"),
               read |-> TRUE]
         ELSE LET tmp == FromBytes(g.raw) IN
              IF tmp.err # NilErr
              THEN [d |-> [d EXCEPT !.lastSet = g.lastUpdate],
                    err |-> Wrap(ErrNotSerializable, tmp.err.msg), read |-> TRUE]
              ELSE [d |-> [value |-> tmp.v, lastSet |-> g.lastUpdate],
                    err |-> NilErr, read |-> TRUE]
    ELSE [d |-> d, err |-> NilErr, read |-> FALSE]

\* Data.Load: d is the value, hasSt whether a Store is attached, s the
\* Store's file.  read tells whether the Store's Get was invoked.
Load(d, hasSt, s, getFails) ==
    IF IsUnset(d) /\ hasSt
    THEN LET g == StoreGet(s, getFails) IN
         IF g.err # NilErr
         THEN [d |-> d, err |-> Wrap(ErrExternalCache, g.err.msg), read |-> TRUE]
         ELSE IF g.lastUpdate = ZeroTime
         THEN [d |-> d, err |-> Wrap(ErrExternalCache, "last update was not set"),
               read |-> TRUE]
         ELSE LET tmp == FromBytes(g.raw) IN
              IF tmp.err # NilErr
              THEN [d |-> d, err |-> Wrap(ErrNotSerializable, tmp.err.msg),
                    read |-> TRUE]
              ELSE [d |-> [value |-> tmp.v, lastSet |-> g.lastUpdate],
                    err |-> NilErr, read |-> TRUE]
    ELSE [d |-> d, err |-> NilErr, read |-> FALSE]

\* Set that undoes the in-memory update when the encoding or the write fails
SetRollback(d, v, t, hasSt, s, bytesFails, setFails) ==
    LET d1 == [value |-> v, lastSet |-> t] IN
    IF hasSt
    THEN LET b == Bytes(v, bytesFails) IN
         IF b.err # NilErr
         THEN [d |-> d, s |-> s, err |-> Wrap(ErrNotSerializable, b.err.msg),
               wrote |-> FALSE]
         ELSE LET w == StoreSet(s, b.raw, t, setFails) IN
              IF w.err # NilErr
              THEN [d |-> d, s |-> w.s, err |-> Wrap(ErrExternalCache, w.err.msg),
                    wrote |-> TRUE]
              ELSE [d |-> d1, s |-> w.s, err |-> NilErr, wrote |-> TRUE]
    ELSE [d |-> d1, s |-> s, err |-> NilErr, wrote |-> FALSE]

\* Data.Set at time t.  wrote tells whether the Store's Set was invoked.
Set(d, v, t, hasSt, s, bytesFails, setFails) ==
    LET d1 == [value |-> v, lastSet |-> t] IN
    IF hasSt
    THEN LET b == Bytes(v, bytesFails) IN
         IF b.err # NilErr
         THEN [d |-> d1, s |-> s, err |-> Wrap(ErrNotSerializable, b.err.msg),
               wrote |-> FALSE]
         ELSE LET w == StoreSet(s, b.raw, t, setFails) IN
              IF w.err # NilErr
              THEN [d |-> d1, s |-> w.s, err |-> Wrap(ErrExternalCache, w.err.msg),
                    wrote |-> TRUE]
              ELSE [d |-> d1, s |-> w.s, err |-> NilErr, wrote |-> TRUE]
    ELSE [d |-> d1, s |-> s, err |-> NilErr, wrote |-> FALSE]

\* ------------------------------------------------------- persist.FireStore
\* the error of the Firestore client for a document that does not exist
NotFoundErr == [kind |-> "NotFound", msg |-> "document not found"]

\* doc.Get(ctx) of the Firestore client: a snapshot of the document, an
\* error when the request fails, and a NotFound error when there is no
\* such document
DocGet(doc, getFails) ==
    IF getFails THEN [raw |-> <<>>, updateTime |-> ZeroTime, err |-> IOErr]
    ELSE IF doc = NoFile
    THEN [raw |-> <<>>, updateTime |-> ZeroTime, err |-> NotFoundErr]
    ELSE [raw |-> doc.raw, updateTime |-> doc.modTime, err |-> NilErr]

\* FireStore.Get
FireStoreGet(doc, getFails, dataToFails) ==
    LET snap == DocGet(doc, getFails) IN
    IF snap.err # NilErr
    THEN [raw |-> <<>>, lastUpdate |-> ZeroTime, err |-> snap.err]
    ELSE IF dataToFails
    THEN [raw |-> <<>>, lastUpdate |-> ZeroTime, err |-> IOErr]
    ELSE [raw |-> snap.raw, lastUpdate |-> snap.updateTime, err |-> NilErr]

\* FireStore.Set at time t
FireStoreSet(doc, raw, t, setFails) ==
    IF setFails THEN [s |-> doc, err |-> IOErr]
    ELSE [s |-> [raw |-> raw, modTime |-> t], err |-> NilErr]

\* ------------------------------------------------------ persist.MultiStore
\* time.Since(ts) at time t; for the zero time it saturates
Since(ts, t) == IF ts = ZeroTime THEN MaxDuration ELSE t - ts

\* How the read of one constituent store goes: it works ("ok"), it fails
\* returning nothing ("err", as FsStore.Get does), or it fails and returns
\* its entry and timestamp with the error ("errData", as the test store
\* does).
ReadModes == {"ok", "err", "errData"}

\* the error of constituent store i
ErrNames == <<"e1", "e2", "e3", "e4">>
StoreErr(i) == [kind |-> "io", msg |-> ErrNames[i]]

\* store.Get of constituent store i holding entry b
BackendGet(b, mode, i) ==
    IF mode = "ok" THEN StoreGet(b, FALSE)
    ELSE IF mode = "err"
    THEN [raw |-> <<>>, lastUpdate |-> ZeroTime, err |-> StoreErr(i)]
    ELSE [raw |-> b.raw, lastUpdate |-> b.modTime, err |-> StoreErr(i)]

\* store.Set of constituent store i
BackendSet(b, raw, t, fails, i) ==
    IF fails THEN [s |-> b, err |-> StoreErr(i)] ELSE StoreSet(b, raw, t, FALSE)

\* store.Delete of constituent store i: the entry is removed
BackendDelete(b, fails, i) ==
    IF fails THEN [s |-> b, err |-> StoreErr(i)] ELSE [s |-> NoFile, err |-> NilErr]

\* strings.Join(errs, "|")
RECURSIVE Join(_)
Join(errs) ==
    IF errs = <<>> THEN ""
    ELSE IF Len(errs) = 1 THEN errs[1]
    ELSE errs[1] \o "|" \o Join(Tail(errs))

\* an aggregated error that is nil when nothing failed
JoinedErrOrNil(errs) ==
    IF errs = <<>> THEN NilErr ELSE [kind |-> "errs", msg |-> "errs: " \o Join(errs)]

\* fmt.Errorf("errs: %v", strings.Join(errs, "|"))
JoinedErr(errs) == [kind |-> "errs", msg |-> "errs: " \o Join(errs)]

\* a miss that always carries an aggregated error
MissErrAlways(errs) == JoinedErr(errs)

\* the error of a Get that found no fresh entry
MissErr(errs) == IF Len(errs) > 0 THEN JoinedErr(errs) ELSE NilErr

\* a hit test that takes any entry with a timestamp
FreshAnyEntry(lastUpdate, expire, t) == lastUpdate # ZeroTime

\* the hit test of Get: the entry's age is inside the expire window
Fresh(lastUpdate, expire, t) == Since(lastUpdate, t) < expire

\* MultiStore.Get from store i on, errs being the errors recorded so far.
\* reads is the number of stores read, hit the index of the store whose
\* entry is returned (0 if none).
RECURSIVE MultiGetFrom(_, _, _, _, _, _)
MultiGetFrom(stores, expire, t, modes, i, errs) ==
    IF i > Len(stores)
    THEN [raw |-> <<>>, lastUpdate |-> ZeroTime, err |-> MissErr(errs),
          reads |-> Len(stores), hit |-> 0]
    ELSE LET g == BackendGet(stores[i], modes[i], i)
             errs1 == IF g.err # NilErr THEN Append(errs, g.err.msg) ELSE errs
         IN IF Fresh(g.lastUpdate, expire, t)
            THEN [raw |-> g.raw, lastUpdate |-> g.lastUpdate, err |-> NilErr,
                  reads |-> i, hit |-> i]
            ELSE MultiGetFrom(stores, expire, t, modes, i + 1, errs1)

\* MultiStore.Get
MultiGet(stores, expire, t, modes) == MultiGetFrom(stores, expire, t, modes, 1, <<>>)

\* MultiStore.Set from store i on.  tried lists the stores written to.
RECURSIVE MultiSetFrom(_, _, _, _, _, _, _)
MultiSetFrom(stores, raw, t, fails, i, errs, tried) ==
    IF i > Len(stores)
    THEN [stores |-> stores, err |-> JoinedErr(errs), tried |-> tried]
    ELSE LET w == BackendSet(stores[i], raw, t, fails[i], i)
             errs1 == IF w.err # NilErr THEN Append(errs, w.err.msg) ELSE errs
         IN MultiSetFrom([stores EXCEPT ![i] = w.s], raw, t, fails, i + 1,
                         errs1, Append(tried, i))

\* a Set that stops at the first store whose write fails
MultiSetStops(stores, raw, t, fails) ==
    LET failing == {i \in 1..Len(stores) : fails[i]}
        k == IF failing = {} THEN Len(stores)
             ELSE CHOOSE i \in failing : \A j \in failing : i <= j
    IN [stores |-> [i \in 1..Len(stores) |->
                      IF i <= k /\ ~fails[i]
                      THEN BackendSet(stores[i], raw, t, FALSE, i).s
                      ELSE stores[i]],
        err |-> JoinedErr(IF failing = {} THEN <<>> ELSE <<ErrNames[k]>>),
        tried |-> [i \in 1..k |-> i]]

\* MultiStore.Set
MultiSet(stores, raw, t, fails) == MultiSetFrom(stores, raw, t, fails, 1, <<>>, <<>>)

\* MultiStore.Delete from store i on
RECURSIVE MultiDeleteFrom(_, _, _, _, _)
MultiDeleteFrom(stores, fails, i, errs, tried) ==
    IF i > Len(stores)
    THEN [stores |-> stores, err |-> JoinedErr(errs), tried |-> tried]
    ELSE LET w == BackendDelete(stores[i], fails[i], i)
             errs1 == IF w.err # NilErr THEN Append(errs, w.err.msg) ELSE errs
         IN MultiDeleteFrom([stores EXCEPT ![i] = w.s], fails, i + 1, errs1,
                            Append(tried, i))

\* MultiStore.Delete
MultiDelete(stores, fails) == MultiDeleteFrom(stores, fails, 1, <<>>, <<>>)

\* ------------------------------------------------- read-through wrappers
\* a refresh-TTL step that never resets the clock
RefreshStepNever(d, ttl, t, refresh) == d

\* the refresh-TTL step of a call: resets the clock of a set, unexpired value
RefreshStep(d, ttl, t, refresh) ==
    IF ~IsExpired(d, ttl, t) /\ ~IsUnset(d) /\ refresh THEN ResetTTL(d, t) ELSE d

\* the decision taken without regard to expiry
MustRecomputeUnsetOnly(d, ttl, t, force) == force \/ IsUnset(d)

\* the decision taken without regard to forceRefresh
MustRecomputeNoForce(d, ttl, t, force) == IsUnset(d) \/ IsExpired(d, ttl, t)

\* the decision taken without regard to the value being unset
MustRecomputeExpiredOnly(d, ttl, t, force) == force \/ IsExpired(d, ttl, t)

\* the decision of a call to invoke the producer
MustRecompute(d, ttl, t, force) == force \/ IsUnset(d) \/ IsExpired(d, ttl, t)

\* a failed producer answered with the zero value instead of the cached one
FuncFnFailedZero(d, loadErr) == [val |-> Empty, cacheErr |-> loadErr, err |-> FnErr]

\* a failed producer answered without the load error
FuncFnFailedNoLoadErr(d, loadErr) ==
    [val |-> Get(d), cacheErr |-> NilErr, err |-> FnErr]

\* what a call returns when the producer failed
FuncFnFailed(d, loadErr) == [val |-> Get(d), cacheErr |-> loadErr, err |-> FnErr]

\* the Store error of a failed Set returned as the producer error
FuncFnOkMerged(d, got, setErr) ==
    IF setErr # NilErr
    THEN [val |-> got, cacheErr |-> NilErr, err |-> setErr]
    ELSE [val |-> Get(d), cacheErr |-> NilErr, err |-> NilErr]

\* what a call returns when the producer returned got and Set returned setErr
FuncFnOk(d, got, setErr) ==
    IF setErr # NilErr
    THEN [val |-> got, cacheErr |-> setErr, err |-> NilErr]
    ELSE [val |-> Get(d), cacheErr |-> NilErr, err |-> NilErr]

\* One call of the function cache.Func returns.  The call starts at time t;
\* the producer, if invoked, takes in.dt and returns in.out.
FuncCall(d, s, hasSt, ttl, t, in) ==
    LET l == Load(d, hasSt, s, in.getFails)
        d1 == RefreshStep(l.d, ttl, t, in.refresh)
        base == [d |-> d1, s |-> s, invoked |-> 0, end |-> t,
                 read |-> l.read, wrote |-> FALSE,
                 seen |-> l.d, loaded |-> l.d # d, reset |-> d1 # l.d,
                 loadErr |-> l.err]
    IN IF MustRecompute(d1, ttl, t, in.force)
       THEN IF ~in.out.ok
            THEN [base EXCEPT !.invoked = 1, !.end = t + in.dt]
                     @@ FuncFnFailed(d1, l.err)
            ELSE LET st == Set(d1, in.out.v, t + in.dt, hasSt, s,
                               in.bytesFails, in.setFails) IN
                 [base EXCEPT !.d = st.d, !.s = st.s, !.invoked = 1,
                              !.end = t + in.dt, !.wrote = st.wrote]
                     @@ FuncFnOk(st.d, in.out.v, st.err)
       ELSE base @@ [val |-> Get(d1), cacheErr |-> NilErr, err |-> NilErr]

\* One call of the function cache.InMemory returns: no Store, no Load, and
\* only the value and the producer error are returned.
InMemoryCall(d, ttl, t, in) ==
    LET d1 == RefreshStep(d, ttl, t, in.refresh)
        base == [d |-> d1, s |-> NoFile, invoked |-> 0, end |-> t,
                 read |-> FALSE, wrote |-> FALSE,
                 seen |-> d, loaded |-> FALSE, reset |-> d1 # d,
                 loadErr |-> NilErr, cacheErr |-> NilErr]
    IN IF MustRecompute(d1, ttl, t, in.force)
       THEN IF ~in.out.ok
            THEN [base EXCEPT !.invoked = 1, !.end = t + in.dt]
                     @@ [val |-> Get(d1), err |-> FnErr]
            ELSE LET st == Set(d1, in.out.v, t + in.dt, FALSE, NoFile,
                               FALSE, FALSE) IN
                 [base EXCEPT !.d = st.d, !.invoked = 1, !.end = t + in.dt]
                     @@ [val |-> Get(st.d), err |-> NilErr]
       ELSE base @@ [val |-> Get(d1), err |-> NilErr]

\* Data.Load of an unset value whose Store is a MultiStore: g is what the
\* MultiStore's Get returned
LoadMulti(d, g) ==
    IF g.err # NilErr
    THEN [d |-> d, err |-> Wrap(ErrExternalCache, g.err.msg)]
    ELSE IF g.lastUpdate = ZeroTime
    THEN [d |-> d, err |-> Wrap(ErrExternalCache, "last update was not set")]
    ELSE LET tmp == FromBytes(g.raw) IN
         IF tmp.err # NilErr
         THEN [d |-> d, err |-> Wrap(ErrNotSerializable, tmp.err.msg)]
         ELSE [d |-> [value |-> tmp.v, lastSet |-> g.lastUpdate], err |-> NilErr]

\* Data.Set whose Store is a MultiStore: w is what the MultiStore's Set
\* returned
SetMulti(v, t, w) ==
    [d |-> [value |-> v, lastSet |-> t],
     err |-> IF w.err # NilErr THEN Wrap(ErrExternalCache, w.err.msg) ELSE NilErr]

\* One call of the function cache.Func returns when its Store is a
\* MultiStore.  in.modes says how the reads of the stores go and in.fails
\* which writes fail; the producer returns at once.
FuncMultiCall(d, stores, expire, ttl, t, in) ==
    LET g == MultiGet(stores, expire, t, in.modes)
        l == IF IsUnset(d) THEN LoadMulti(d, g) ELSE [d |-> d, err |-> NilErr]
        d1 == RefreshStep(l.d, ttl, t, in.refresh)
        base == [d |-> d1, stores |-> stores, invoked |-> 0, end |-> t,
                 read |-> IsUnset(d), wrote |-> FALSE,
                 seen |-> l.d, loaded |-> l.d # d, reset |-> d1 # l.d,
                 loadErr |-> l.err,
                 reads |-> IF IsUnset(d) THEN g.reads ELSE 0,
                 hit |-> IF IsUnset(d) THEN g.hit ELSE 0, tried |-> <<>>]
    IN IF MustRecompute(d1, ttl, t, in.force)
       THEN IF ~in.out.ok
            THEN [base EXCEPT !.invoked = 1] @@ FuncFnFailed(d1, l.err)
            ELSE LET w == MultiSet(stores, Marshal(in.out.v), t, in.fails)
                     st == SetMulti(in.out.v, t, w) IN
                 [base EXCEPT !.d = st.d, !.stores = w.stores, !.invoked = 1,
                              !.wrote = TRUE, !.tried = w.tried]
                     @@ FuncFnOk(st.d, in.out.v, st.err)
       ELSE base @@ [val |-> Get(d1), cacheErr |-> NilErr, err |-> NilErr]

\* SkipErr: r is what the wrapped function returned.  logs lists the calls
\* of a logging callback, of which SkipErr has none.
SkipErr(r) == [val |-> r.val, err |-> r.err, logs |-> <<>>]

\* a LogErr that logs whichever error the wrapped function returned
LogErrAnyError(r) ==
    [val |-> r.val, err |-> r.err,
     logs |-> IF r.cacheErr # NilErr THEN <<r.cacheErr>>
              ELSE IF r.err # NilErr THEN <<r.err>> ELSE <<>>]

\* LogErr: the callback log is called with the cache error if there is one
LogErr(r) ==
    [val |-> r.val, err |-> r.err,
     logs |-> IF r.cacheErr # NilErr THEN <<r.cacheErr>> ELSE <<>>]

\* ------------------------------------------------------- package memoize
\* The inputs a memoized function is called with: x1 and x2 are different
\* values with the same derived key, y has another key, and bad is a value
\* json.Marshal rejects.
MemoInputs == {"x1", "x2", "y", "bad"}

Keys == {"k1", "k2"}

\* a key derivation that tells x1 and x2 apart
KeyOfDistinct(in) ==
    IF in = "bad" THEN [key |-> "", err |-> Wrap(ErrFailedKey, "")]
    ELSE IF in = "x1" THEN [key |-> "k1", err |-> NilErr]
    ELSE [key |-> "k2", err |-> NilErr]

\* the derived key of an input: Keyer.Key() or the JSON encoding
KeyOf(in) ==
    IF in = "bad" THEN [key |-> "", err |-> Wrap(ErrFailedKey, "")]
    ELSE IF in \in {"x1", "x2"} THEN [key |-> "k1", err |-> NilErr]
    ELSE [key |-> "k2", err |-> NilErr]

\* persist.NewDataMap: no entries.  at[k] is meaningful for k in keys only.
NewDataMap == [keys |-> {}, at |-> [k \in Keys |-> NewData]]

\* an assignment that lands in every entry of the map
PutEntryShared(m, key, d) ==
    [keys |-> m.keys \cup {key},
     at |-> [k \in Keys |-> IF k = key \/ k \in m.keys THEN d ELSE m.at[k]]]

\* d.values[key] = the Data d
PutEntry(m, key, d) ==
    [keys |-> m.keys \cup {key}, at |-> [m.at EXCEPT ![key] = d]]

\* DataMap.Load without a Store: ptr tells whether a *Data is returned
DataMapLoad(m, in) ==
    LET k == KeyOf(in) IN
    IF k.err # NilErr
    THEN [m |-> m, ptr |-> FALSE, key |-> "", err |-> k.err]
    ELSE LET m1 == IF k.key \in m.keys THEN m ELSE PutEntry(m, k.key, NewData)
         IN [m |-> m1, ptr |-> TRUE, key |-> k.key,
             err |-> Load(m1.at[k.key], FALSE, NoFile, FALSE).err]

\* One call of the function memoize.Func returns, for a DataMap without a
\* Store.  A nil *Data is dereferenced by the first method called on it:
\* the call panics, after the producer ran if only ForceRefresh was given.
MemoCall(m, ttl, t, in) ==
    LET l == DataMapLoad(m, in.arg) IN
    IF ~l.ptr
    THEN [m |-> l.m, crashed |-> TRUE,
          invoked |-> IF in.force /\ ~in.refresh THEN 1 ELSE 0,
          val |-> Empty, cacheErr |-> NilErr, err |-> NilErr]
    ELSE LET d0 == l.m.at[l.key]
             d1 == IF in.refresh THEN ResetTTL(d0, t) ELSE d0
             m1 == PutEntry(l.m, l.key, d1)
         IN IF MustRecompute(d1, ttl, t, in.force)
            THEN IF ~in.out.ok
                 THEN [m |-> m1, crashed |-> FALSE, invoked |-> 1,
                       val |-> Get(d1), cacheErr |-> l.err, err |-> FnErr]
                 ELSE LET st == Set(d1, in.out.v, t, FALSE, NoFile, FALSE, FALSE)
                      IN IF st.err # NilErr
                         THEN [m |-> PutEntry(m1, l.key, st.d),
                               crashed |-> FALSE, invoked |-> 1,
                               val |-> in.out.v, cacheErr |-> st.err,
                               err |-> NilErr]
                         ELSE [m |-> PutEntry(m1, l.key, st.d),
                               crashed |-> FALSE, invoked |-> 1,
                               val |-> Get(st.d), cacheErr |-> NilErr,
                               err |-> NilErr]
            ELSE [m |-> m1, crashed |-> FALSE, invoked |-> 0,
                  val |-> Get(d1), cacheErr |-> NilErr, err |-> NilErr]

\* -------------------------------------------------------------- cache.Map
\* Data.Delete: removes the value's entry from its Store, if it has one
DataDelete(hasSt, s, delFails) ==
    IF ~hasSt THEN [s |-> s, err |-> NilErr]
    ELSE IF delFails THEN [s |-> s, err |-> Wrap(ErrExternalCache, IOErr.msg)]
    ELSE [s |-> NoFile, err |-> NilErr]

\* NewMap: whether the Map it returns has a Store.  The store argument is
\* not assigned to the Map, whatever it is.
NewMapHasStore(st) == FALSE

\* Map.Set(k, v) at time t on the mapping m; files are the Store's files
MapSetCall(m, files, hasSt, k, v, t, bytesFails, setFails) ==
    LET st == Set(NewData, v, t, hasSt, files[k], bytesFails, setFails) IN
    IF st.err # NilErr
    THEN [m |-> m, files |-> [files EXCEPT ![k] = st.s], err |-> st.err]
    ELSE [m |-> PutEntry(m, k, st.d), files |-> [files EXCEPT ![k] = st.s],
          err |-> NilErr]

\* Map.Get that returns whatever entry the mapping holds
MapGetCallAnyAge(m, ttl, k, t) ==
    IF k \notin m.keys
    THEN [val |-> Empty, ok |-> FALSE]
    ELSE [val |-> Get(m.at[k]), ok |-> TRUE]

\* Map.Get(k) at time t
MapGetCall(m, ttl, k, t) ==
    IF k \notin m.keys \/ IsExpired(m.at[k], ttl, t)
    THEN [val |-> Empty, ok |-> FALSE]
    ELSE [val |-> Get(m.at[k]), ok |-> TRUE]

\* delete(m.data, k)
DropEntry(m, k) ==
    [keys |-> m.keys \ {k}, at |-> [m.at EXCEPT ![k] = NewData]]

\* ------------------------------------------------------------------ state
VARIABLES
    now,      \* the clock
    kind,     \* which wrapper was built: "InMemory" or "Func"
    ttl,      \* the wrapper's TTL
    data,     \* the wrapper's persist.Data: value and lastSet
    store,    \* the file of the wrapper's key in its Store
    ret,      \* the last call: its options, what it returned and what it did
    calls,    \* calls made so far
    hist,     \* over all calls: producer invocations, whether one succeeded,
              \* Store reads, and whether the file existed at the start
    dret,     \* the last operation made directly on a persist.Data
    multi,    \* a MultiStore: its stores' entries for the key, its expire
              \* window, and the last operation made on it
    sweep     \* the eviction task of a cache.Map: where it is in its loop,
              \* and whether its context is cancelled

vars == <<now, kind, ttl, data, store, ret, calls, hist, dret, multi, sweep>>

TTLs == 0..MaxTTL

\* the files a Store can hold for the key when the wrapper is created: none,
\* a valid encoding, or bytes that do not decode
InitFiles ==
    {NoFile} \cup [raw : {Marshal(<<"a">>), <<"a">>}, modTime : {1}]

\* the inputs of a call: its options, what the producer would return and
\* how long it would take, and which Store or encoding operations would fail
NoOut == [ok |-> FALSE, v |-> Empty]
NoInput ==
    [force |-> FALSE, refresh |-> FALSE, out |-> NoOut, dt |-> 0,
     getFails |-> FALSE, setFails |-> FALSE, bytesFails |-> FALSE]

\* no call made yet
NoRet ==
    [made |-> FALSE, in |-> NoInput, at |-> 0, end |-> 0,
     pre |-> NewData, seen |-> NewData,
     val |-> Empty, cacheErr |-> NilErr, err |-> NilErr,
     invoked |-> 0, read |-> FALSE, wrote |-> FALSE,
     loaded |-> FALSE, reset |-> FALSE, loadErr |-> NilErr]

NoHist ==
    [fn |-> 0, fnOk |-> FALSE, gets |-> 0, hadFile |-> store # NoFile,
     chain |-> TRUE, file0 |-> store, setFailed |-> FALSE]

\* no operation made yet on the persist.Data
NoOp ==
    [op |-> "none", pre |-> NewData, arg |-> Empty, at |-> 0, err |-> NilErr,
     getFails |-> FALSE, setFails |-> FALSE, bytesFails |-> FALSE,
     read |-> FALSE, wrote |-> FALSE, expired |-> FALSE,
     committed |-> [ok |-> FALSE, v |-> Empty, at |-> 0]]

\* no MultiStore in use
NoMultiOp ==
    [op |-> "none", at |-> 0, modes |-> <<>>, fails |-> <<>>,
     arg |-> <<>>, raw |-> <<>>, lastUpdate |-> ZeroTime, err |-> NilErr,
     reads |-> 0, hit |-> 0, tried |-> <<>>]

NoMulti == [stores |-> <<>>, expire |-> 0, last |-> NoMultiOp]

\* no cache.Map was built, so no eviction task runs
NoSweep ==
    [pc |-> "none", todo |-> {}, cur |-> "", cancelled |-> FALSE,
     crashed |-> FALSE]

Init ==
    /\ now = 1
    /\ kind \in {"InMemory", "Func"}
    /\ ttl \in TTLs
    /\ data = NewData
    /\ store \in IF kind = "Func" THEN InitFiles ELSE {NoFile}
    /\ ret = NoRet
    /\ calls = 0
    /\ hist = NoHist
    /\ dret = NoOp
    /\ multi = NoMulti
    /\ sweep = NoSweep

\* the record of a call made at time now with inputs in and outcome r
RetOf(in, r) ==
    [made |-> TRUE, in |-> in, at |-> now, end |-> r.end,
     pre |-> data, seen |-> r.seen,
     val |-> r.val, cacheErr |-> r.cacheErr, err |-> r.err,
     invoked |-> r.invoked, read |-> r.read, wrote |-> r.wrote,
     loaded |-> r.loaded, reset |-> r.reset, loadErr |-> r.loadErr]

\* a call continues a chain of TTL-refreshing calls: it has refreshTTL and no
\* forceRefresh, its producer (if invoked) succeeds, and it starts less than
\* the TTL after the previous call returned
Chained(in, r) ==
    /\ in.refresh /\ ~in.force
    /\ r.invoked = 1 => in.out.ok
    /\ ret.made /\ ttl # Forever => now - ret.end < ttl

HistOf(in, r) ==
    [hist EXCEPT !.fn = @ + r.invoked,
                 !.fnOk = @ \/ (r.invoked = 1 /\ in.out.ok),
                 !.gets = @ + (IF r.read THEN 1 ELSE 0),
                 !.chain = @ /\ Chained(in, r),
                 !.setFailed = IF r.invoked = 1
                               THEN in.out.ok /\ r.wrote /\ in.setFails
                               ELSE @]

Commit(in, r) ==
    /\ r.end <= MaxTime
    /\ now' = r.end
    /\ data' = r.d
    /\ store' = r.s
    /\ ret' = RetOf(in, r)
    /\ calls' = calls + 1
    /\ hist' = HistOf(in, r)
    /\ UNCHANGED <<kind, ttl, dret, multi, sweep>>

\* the ways the commit of a producer result can go: both the encoding and
\* the Store write work, the encoding fails, or the Store write fails
WriteOutcomes(hasSt) ==
    IF hasSt
    THEN {[setFails |-> FALSE, bytesFails |-> FALSE],
          [setFails |-> FALSE, bytesFails |-> TRUE],
          [setFails |-> TRUE, bytesFails |-> FALSE]}
    ELSE {[setFails |-> FALSE, bytesFails |-> FALSE]}

\* the options of a call and, when the call reads the Store, whether that
\* read fails
OptionInputs(hasSt) ==
    {[NoInput EXCEPT !.force = f[1], !.refresh = f[2], !.getFails = f[3]] :
        f \in BOOLEAN \X BOOLEAN \X
              (IF hasSt /\ IsUnset(data) THEN BOOLEAN ELSE {FALSE})}

\* The inputs that complete opts.  An input describes only what the call
\* does: a producer outcome only if the producer is invoked, and a commit
\* outcome only if the producer succeeds.
Completions(opts, invoked, hasSt) ==
    IF ~invoked THEN {opts}
    ELSE UNION { IF ~o.ok
                 THEN {[opts EXCEPT !.out = o, !.dt = dt] : dt \in {0, 1}}
                 ELSE {[opts EXCEPT !.out = o, !.dt = dt,
                                    !.setFails = w.setFails,
                                    !.bytesFails = w.bytesFails] :
                          dt \in {0, 1}, w \in WriteOutcomes(hasSt)}
               : o \in FnOutcomes }

FuncOf(in) == FuncCall(data, store, TRUE, ttl, now, in)

InMemoryOf(in) == InMemoryCall(data, ttl, now, in)

\* a call of the wrapper cache.Func built
CallFunc ==
    /\ kind = "Func"
    /\ calls < MaxCalls
    /\ \E opts \in OptionInputs(TRUE) :
          \E in \in Completions(opts, FuncOf(opts).invoked = 1, TRUE) :
             Commit(in, FuncOf(in))

\* a call of the wrapper cache.InMemory built
CallInMemory ==
    /\ kind = "InMemory"
    /\ calls < MaxCalls
    /\ \E opts \in OptionInputs(FALSE) :
          \E in \in Completions(opts, InMemoryOf(opts).invoked = 1, FALSE) :
             Commit(in, InMemoryOf(in))

\* time passes between calls
Tick ==
    /\ now < MaxTime
    /\ now' = now + 1
    /\ UNCHANGED <<kind, ttl, data, store, ret, calls, hist, dret, multi, sweep>>

Next == CallFunc \/ CallInMemory \/ Tick

Spec == Init /\ [][Next]_vars

\* ------------------------------------------- persist.Data used directly
\* A persist.Data created by NewData, with a Store ("Data") or with a nil
\* Store ("DataNil"), and its methods called in any order.
HasStore == kind \in {"Func", "Data"}

InitData ==
    /\ now = 1
    /\ kind \in {"Data", "DataNil"}
    /\ ttl \in TTLs
    /\ data = NewData
    /\ store \in IF kind = "Data" THEN InitFiles ELSE {NoFile}
    /\ ret = NoRet
    /\ calls = 0
    /\ hist = NoHist
    /\ dret = NoOp
    /\ multi = NoMulti
    /\ sweep = NoSweep

\* d.Load(ctx)
DataLoad ==
    /\ kind \in {"Data", "DataNil"}
    /\ \E getFails \in (IF HasStore /\ IsUnset(data) THEN BOOLEAN ELSE {FALSE}) :
          LET l == Load(data, HasStore, store, getFails) IN
          /\ data' = l.d
          /\ dret' = [NoOp EXCEPT !.op = "Load", !.pre = data, !.at = now,
                                  !.err = l.err, !.getFails = getFails,
                                  !.read = l.read,
                                  !.committed = dret.committed]
    /\ UNCHANGED <<now, kind, ttl, store, ret, calls, hist, multi, sweep>>

\* d.Set(ctx, v)
DataSet ==
    /\ kind \in {"Data", "DataNil"}
    /\ \E v \in FnValues, w \in WriteOutcomes(HasStore) :
          LET st == Set(data, v, now, HasStore, store, w.bytesFails, w.setFails) IN
          /\ data' = st.d
          /\ store' = st.s
          /\ dret' = [NoOp EXCEPT !.op = "Set", !.pre = data, !.arg = v,
                                  !.at = now, !.err = st.err,
                                  !.setFails = w.setFails,
                                  !.bytesFails = w.bytesFails,
                                  !.wrote = st.wrote,
                                  !.committed =
                                      IF st.wrote /\ st.err = NilErr
                                      THEN [ok |-> TRUE, v |-> v, at |-> now]
                                      ELSE dret.committed]
    /\ UNCHANGED <<now, kind, ttl, ret, calls, hist, multi, sweep>>

\* d.ResetTTL()
DataResetTTL ==
    /\ kind \in {"Data", "DataNil"}
    /\ data' = ResetTTL(data, now)
    /\ dret' = [NoOp EXCEPT !.op = "ResetTTL", !.pre = data, !.at = now,
                            !.committed = dret.committed]
    /\ UNCHANGED <<now, kind, ttl, store, ret, calls, hist, multi, sweep>>

\* d.IsExpired(ttl)
DataIsExpired ==
    /\ kind \in {"Data", "DataNil"}
    /\ dret' = [NoOp EXCEPT !.op = "IsExpired", !.pre = data, !.at = now,
                            !.expired = IsExpired(data, ttl, now),
                            !.committed = dret.committed]
    /\ UNCHANGED <<now, kind, ttl, data, store, ret, calls, hist, multi, sweep>>

\* NewData(store, key) again: a fresh instance over the same Store and key,
\* as after a restart of the process
DataReopen ==
    /\ kind \in {"Data", "DataNil"}
    /\ data' = NewData
    /\ dret' = [NoOp EXCEPT !.op = "NewData", !.pre = data, !.at = now,
                            !.committed = dret.committed]
    /\ UNCHANGED <<now, kind, ttl, store, ret, calls, hist, multi, sweep>>

NextData ==
    DataLoad \/ DataSet \/ DataResetTTL \/ DataIsExpired \/ DataReopen \/ Tick

SpecData == InitData /\ [][NextData]_vars

\* --------------------------------------------------- persist.MultiStore
\* A MultiStore over one to MaxStores stores, used directly ("Multi").
\* the entries a constituent store can hold for the key at the start
InitEntries == {NoFile, [raw |-> Marshal(<<"a">>), modTime |-> 1]}

\* the expire windows a MultiStore is built with
Expires == 1..MaxTTL

\* the TTLs a wrapper over a MultiStore is built with
MultiTTLs == {Forever, MaxTTL}

InitMulti ==
    /\ now = 1
    /\ kind \in {"Multi", "FuncMulti"}
    /\ ttl \in (IF kind = "Multi" THEN {Forever} ELSE MultiTTLs)
    /\ data = NewData
    /\ store = NoFile
    /\ ret = NoRet
    /\ calls = 0
    /\ hist = NoHist
    /\ dret = NoOp
    /\ \E n \in 1..MaxStores :
          multi \in [stores : [1..n -> InitEntries], expire : Expires,
                     last : {NoMultiOp}]
    /\ sweep = NoSweep

NStores == Len(multi.stores)

\* s.Get(ctx, key): the modes of the stores Get does not read are not
\* inputs, and a store without an entry has none to return with its error
MultiGetOp ==
    /\ kind = "Multi"
    /\ \E modes \in [1..NStores -> ReadModes] :
          LET g == MultiGet(multi.stores, multi.expire, now, modes) IN
          /\ \A i \in 1..NStores : i > g.reads => modes[i] = "ok"
          /\ \A i \in 1..NStores :
                multi.stores[i] = NoFile => modes[i] # "errData"
          /\ multi' = [multi EXCEPT !.last =
                 [NoMultiOp EXCEPT !.op = "Get", !.at = now,
                                   !.modes = modes,
                                   !.raw = g.raw, !.lastUpdate = g.lastUpdate,
                                   !.err = g.err, !.reads = g.reads,
                                   !.hit = g.hit]]
    /\ UNCHANGED <<now, kind, ttl, data, store, ret, calls, hist, dret, sweep>>

\* s.Set(ctx, key, val)
MultiSetOp ==
    /\ kind = "Multi"
    /\ \E v \in {<<"b">>}, fails \in [1..NStores -> BOOLEAN] :
          LET w == MultiSet(multi.stores, Marshal(v), now, fails) IN
          multi' = [multi EXCEPT !.stores = w.stores, !.last =
                 [NoMultiOp EXCEPT !.op = "Set", !.at = now,
                                   !.fails = fails,
                                   !.arg = Marshal(v), !.err = w.err,
                                   !.tried = w.tried]]
    /\ UNCHANGED <<now, kind, ttl, data, store, ret, calls, hist, dret, sweep>>

\* s.Delete(ctx, key)
MultiDeleteOp ==
    /\ kind = "Multi"
    /\ \E fails \in [1..NStores -> BOOLEAN] :
          LET w == MultiDelete(multi.stores, fails) IN
          multi' = [multi EXCEPT !.stores = w.stores, !.last =
                 [NoMultiOp EXCEPT !.op = "Delete", !.at = now,
                                   !.fails = fails,
                                   !.err = w.err, !.tried = w.tried]]
    /\ UNCHANGED <<now, kind, ttl, data, store, ret, calls, hist, dret, sweep>>

\* what the producer of the wrapper over the MultiStore returns
MultiFnOutcomes == {[ok |-> FALSE, v |-> Empty], [ok |-> TRUE, v |-> <<"b">>]}

\* The inputs of a call of the wrapper: the read modes only of the stores a
\* Load reads, the producer's outcome only if it is invoked, and the failing
\* writes only if it succeeds.  The calls are made without refreshTTL, and
\* a failing read returns nothing.
MultiOptions ==
    {[force |-> f, refresh |-> FALSE, modes |-> m, out |-> NoOut,
      fails |-> [i \in 1..NStores |-> FALSE]] :
        f \in BOOLEAN,
        m \in IF IsUnset(data) THEN [1..NStores -> {"ok", "err"}]
              ELSE {[i \in 1..NStores |-> "ok"]}}

MultiCompletions(opts, invoked) ==
    IF ~invoked THEN {opts}
    ELSE UNION { IF ~o.ok THEN {[opts EXCEPT !.out = o]}
                 ELSE {[opts EXCEPT !.out = o, !.fails = fl] :
                          fl \in [1..NStores -> BOOLEAN]}
               : o \in MultiFnOutcomes }

FuncMultiOf(in) ==
    FuncMultiCall(data, multi.stores, multi.expire, ttl, now, in)

\* the part of the inputs the record of the last call keeps
InputOf(in) ==
    [NoInput EXCEPT !.force = in.force, !.refresh = in.refresh, !.out = in.out,
                    !.getFails = \E i \in 1..NStores : in.modes[i] # "ok",
                    !.setFails = \E i \in 1..NStores : in.fails[i]]

CommitMulti(in, r) ==
    /\ \A i \in 1..NStores : i > r.reads => in.modes[i] = "ok"
    /\ data' = r.d
    /\ multi' = [multi EXCEPT !.stores = r.stores, !.last =
           [NoMultiOp EXCEPT !.op = "Func", !.at = now, !.modes = in.modes,
                             !.fails = in.fails, !.reads = r.reads,
                             !.hit = r.hit, !.tried = r.tried]]
    /\ ret' = RetOf(InputOf(in), r)
    /\ calls' = calls + 1
    /\ hist' = HistOf(InputOf(in), r)
    /\ UNCHANGED <<now, kind, ttl, store, dret, sweep>>

\* a call of the wrapper cache.Func built over the MultiStore
CallFuncMulti ==
    /\ kind = "FuncMulti"
    /\ calls < MaxCalls
    /\ \E opts \in MultiOptions :
          \E in \in MultiCompletions(opts, FuncMultiOf(opts).invoked = 1) :
             CommitMulti(in, FuncMultiOf(in))

NextMulti == MultiGetOp \/ MultiSetOp \/ MultiDeleteOp \/ CallFuncMulti \/ Tick

SpecMulti == InitMulti /\ [][NextMulti]_vars

\* ------------------------------------------------------- persist.FireStore
\* A FireStore used directly for one key; store is the key's document.
NoFireOp ==
    [op |-> "none", raw |-> <<>>, lastUpdate |-> ZeroTime, err |-> NilErr,
     getFails |-> FALSE, dataToFails |-> FALSE, setFails |-> FALSE]

InitFire ==
    /\ now = 1
    /\ kind = "FireStore"
    /\ ttl = Forever
    /\ data = NewData
    /\ store \in InitEntries
    /\ ret = NoRet
    /\ calls = 0
    /\ hist = NoHist
    /\ dret = NoFireOp
    /\ multi = NoMulti
    /\ sweep = NoSweep

\* s.Get(ctx, key); the decoding of a snapshot fails only if there is one
FireGet ==
    /\ kind = "FireStore"
    /\ \E getFails \in BOOLEAN, dataToFails \in BOOLEAN :
          LET g == FireStoreGet(store, getFails, dataToFails) IN
          /\ dataToFails => DocGet(store, getFails).err = NilErr
          /\ dret' = [NoFireOp EXCEPT !.op = "Get", !.raw = g.raw,
                                      !.lastUpdate = g.lastUpdate,
                                      !.err = g.err, !.getFails = getFails,
                                      !.dataToFails = dataToFails]
    /\ UNCHANGED <<now, kind, ttl, data, store, ret, calls, hist, multi, sweep>>

\* s.Set(ctx, key, val)
FireSet ==
    /\ kind = "FireStore"
    /\ \E v \in FnValues, setFails \in BOOLEAN :
          LET w == FireStoreSet(store, Marshal(v), now, setFails) IN
          /\ store' = w.s
          /\ dret' = [NoFireOp EXCEPT !.op = "Set", !.raw = Marshal(v),
                                      !.err = w.err, !.setFails = setFails]
    /\ UNCHANGED <<now, kind, ttl, data, ret, calls, hist, multi, sweep>>

NextFire == FireGet \/ FireSet \/ Tick

SpecFire == InitFire /\ [][NextFire]_vars

\* ------------------------------------------------------ SkipErr, LogErr
\* A cache.Func over a Store, wrapped by SkipErr or by LogErr.  ret is what
\* the wrapped function returned, dret what the reduction returned and
\* logged.
NoReduced == [op |-> "none", val |-> Empty, err |-> NilErr, logs |-> <<>>]

\* the files the Store can hold for the key when the wrapper is created
ReduceFiles == {NoFile, [raw |-> Marshal(<<"a">>), modTime |-> 1]}

\* the TTLs the wrapped function is built with
ReduceTTLs == {Forever, MaxTTL}

InitReduce ==
    /\ now = 1
    /\ kind \in {"SkipErr", "LogErr"}
    /\ ttl \in ReduceTTLs
    /\ data = NewData
    /\ store \in ReduceFiles
    /\ ret = NoRet
    /\ calls = 0
    /\ hist = NoHist
    /\ dret = NoReduced
    /\ multi = NoMulti
    /\ sweep = NoSweep

CommitReduced(in, r, out) ==
    /\ r.end <= MaxTime
    /\ now' = r.end
    /\ data' = r.d
    /\ store' = r.s
    /\ ret' = RetOf(in, r)
    /\ calls' = calls + 1
    /\ hist' = HistOf(in, r)
    /\ dret' = [op |-> kind, val |-> out.val, err |-> out.err, logs |-> out.logs]
    /\ UNCHANGED <<kind, ttl, multi, sweep>>

\* a call of SkipErr(fn)
CallSkipErr ==
    /\ kind = "SkipErr"
    /\ calls < MaxCalls
    /\ \E opts \in OptionInputs(TRUE) :
          \E in \in Completions(opts, FuncOf(opts).invoked = 1, TRUE) :
             CommitReduced(in, FuncOf(in), SkipErr(FuncOf(in)))

\* a call of LogErr(fn, log)
CallLogErr ==
    /\ kind = "LogErr"
    /\ calls < MaxCalls
    /\ \E opts \in OptionInputs(TRUE) :
          \E in \in Completions(opts, FuncOf(opts).invoked = 1, TRUE) :
             CommitReduced(in, FuncOf(in), LogErr(FuncOf(in)))

NextReduce == CallSkipErr \/ CallLogErr \/ Tick

SpecReduce == InitReduce /\ [][NextReduce]_vars

\* ------------------------------------------------------- package memoize
\* A function memoized by memoize.Func over a DataMap without a Store.
\* what the producer of the memoized function returns
MemoFnOutcomes == {[ok |-> FALSE, v |-> Empty], [ok |-> TRUE, v |-> <<"b">>]}

\* no call made yet
NoMemoRet ==
    [made |-> FALSE, arg |-> "", force |-> FALSE, refresh |-> FALSE,
     out |-> NoOut, at |-> 0, val |-> Empty, cacheErr |-> NilErr,
     err |-> NilErr, invoked |-> 0, crashed |-> FALSE]

\* which input created the entry of each key
NoCreators == [k \in Keys |-> "none"]

InitMemo ==
    /\ now = 1
    /\ kind = "Memo"
    /\ ttl \in TTLs
    /\ data = NewDataMap
    /\ store = NoFile
    /\ ret = NoMemoRet
    /\ calls = 0
    /\ hist = NoCreators
    /\ dret = NoOp
    /\ multi = NoMulti
    /\ sweep = NoSweep

\* The inputs of a call: the argument, the options, and the producer's
\* outcome only if the producer is invoked.
MemoInputsOf(arg, force, refresh) ==
    LET opts == [arg |-> arg, force |-> force, refresh |-> refresh,
                 out |-> NoOut]
    IN IF MemoCall(data, ttl, now, opts).invoked = 1
       THEN {[opts EXCEPT !.out = o] : o \in MemoFnOutcomes}
       ELSE {opts}

\* a call of the memoized function; a caller that recovers from the panic
\* of a call goes on calling
CallMemo ==
    /\ kind = "Memo"
    /\ calls < MaxCalls
    /\ \E arg \in MemoInputs, force \in BOOLEAN, refresh \in BOOLEAN :
          \E in \in MemoInputsOf(arg, force, refresh) :
             LET r == MemoCall(data, ttl, now, in) IN
             /\ data' = r.m
             /\ ret' = [made |-> TRUE, arg |-> in.arg, force |-> in.force,
                        refresh |-> in.refresh, out |-> in.out, at |-> now,
                        val |-> r.val, cacheErr |-> r.cacheErr, err |-> r.err,
                        invoked |-> r.invoked, crashed |-> r.crashed]
             /\ hist' = [k \in Keys |->
                           IF k \in r.m.keys \ data.keys THEN in.arg
                           ELSE hist[k]]
    /\ calls' = calls + 1
    /\ UNCHANGED <<now, kind, ttl, store, dret, multi, sweep>>

NextMemo == CallMemo \/ Tick

SpecMemo == InitMemo /\ [][NextMemo]_vars

\* -------------------------------------------------------------- cache.Map
\* A Map built by NewMap with a Store, a TTL and an eviction timer; callers
\* Set and Get while the eviction task runCleanup runs beside them.  Nothing
\* orders the task's steps and the callers' accesses to the mapping: an
\* access made while the task ranges over the mapping is a data race, which
\* the runtime may end with a fatal error.
NoMapRet ==
    [op |-> "none", key |-> "", val |-> Empty, ok |-> FALSE, err |-> NilErr,
     overlap |-> FALSE]

NoFiles == [k \in Keys |-> NoFile]

\* no Map.Set has returned yet for any key
NoSets == [k \in Keys |-> Empty]

InitMap ==
    /\ now = 1
    /\ kind = "Map"
    /\ ttl \in TTLs
    /\ data = NewDataMap
    /\ store = NoFiles
    /\ ret = NoMapRet
    /\ calls = 0
    /\ hist = NoSets
    /\ dret = NoOp
    /\ multi = NoMulti
    /\ sweep = [NoSweep EXCEPT !.pc = "begin"]

MapRuns == kind = "Map" /\ ~sweep.crashed

\* the task is between the start and the end of a range over the mapping
Ranging == sweep.pc = "scan"

\* m.Set(ctx, k, v) by a caller.  A key inserted while the task ranges over
\* the mapping may or may not be produced by that range.  A call the
\* runtime stops with a fatal error does not return.
MapSet ==
    /\ MapRuns
    /\ calls < MaxCalls
    /\ \E k \in Keys, v \in FnValues, crash \in BOOLEAN, produced \in BOOLEAN :
          LET w == MapSetCall(data, store, NewMapHasStore(store), k, v,
                              now, FALSE, FALSE) IN
          /\ crash => Ranging
          /\ produced => Ranging /\ k \notin data.keys /\ ~crash
          /\ data' = w.m
          /\ store' = w.files
          /\ ret' = [NoMapRet EXCEPT !.op = IF crash THEN "fatal" ELSE "Set",
                                     !.key = k, !.val = v,
                                     !.ok = w.err = NilErr, !.err = w.err,
                                     !.overlap = Ranging]
          /\ hist' = IF w.err = NilErr THEN [hist EXCEPT ![k] = v] ELSE hist
          /\ sweep' = [sweep EXCEPT !.crashed = crash,
                          !.todo = IF produced THEN @ \cup {k} ELSE @]
    /\ calls' = calls + 1
    /\ UNCHANGED <<now, kind, ttl, dret, multi>>

\* m.Get(k) by a caller; a call the runtime stops with a fatal error does
\* not return
MapGet ==
    /\ MapRuns
    /\ calls < MaxCalls
    /\ \E k \in Keys, crash \in BOOLEAN :
          LET g == MapGetCall(data, ttl, k, now) IN
          /\ crash => Ranging
          /\ ret' = [NoMapRet EXCEPT !.op = IF crash THEN "fatal" ELSE "Get",
                                     !.key = k, !.val = g.val,
                                     !.ok = g.ok, !.overlap = Ranging]
          /\ sweep' = [sweep EXCEPT !.crashed = crash]
    /\ calls' = calls + 1
    /\ UNCHANGED <<now, kind, ttl, data, store, hist, dret, multi>>

\* runCleanup starts a pass: for k, v := range m.data
SweepBegin ==
    /\ MapRuns
    /\ sweep.pc = "begin"
    /\ sweep' = [sweep EXCEPT !.pc = "scan", !.todo = data.keys, !.cur = ""]
    /\ UNCHANGED <<now, kind, ttl, data, store, ret, calls, hist, dret, multi>>

\* the range produces the next entry and the task tests v.IsExpired(m.ttl)
SweepExamine ==
    /\ MapRuns
    /\ sweep.pc = "scan" /\ sweep.cur = ""
    /\ \E k \in sweep.todo :
          sweep' = [sweep EXCEPT
                       !.todo = @ \ {k},
                       !.cur = IF k \in data.keys /\ IsExpired(data.at[k], ttl, now)
                               THEN k ELSE ""]
    /\ UNCHANGED <<now, kind, ttl, data, store, ret, calls, hist, dret, multi>>

\* _ = v.Delete(ctx); delete(m.data, k)
SweepDelete ==
    /\ MapRuns
    /\ sweep.pc = "scan" /\ sweep.cur # ""
    /\ store' = [store EXCEPT ![sweep.cur] =
                    DataDelete(NewMapHasStore(store), @, FALSE).s]
    /\ data' = DropEntry(data, sweep.cur)
    /\ sweep' = [sweep EXCEPT !.cur = ""]
    /\ UNCHANGED <<now, kind, ttl, ret, calls, hist, dret, multi>>

\* the range is over: the task goes to its select
SweepWait ==
    /\ MapRuns
    /\ sweep.pc = "scan" /\ sweep.cur = "" /\ sweep.todo = {}
    /\ sweep' = [sweep EXCEPT !.pc = "wait"]
    /\ UNCHANGED <<now, kind, ttl, data, store, ret, calls, hist, dret, multi>>

\* case <-ttlWait.C
SweepTick ==
    /\ MapRuns
    /\ sweep.pc = "wait"
    /\ sweep' = [sweep EXCEPT !.pc = "begin"]
    /\ UNCHANGED <<now, kind, ttl, data, store, ret, calls, hist, dret, multi>>

\* case <-ctx.Done(): return
SweepExit ==
    /\ MapRuns
    /\ sweep.pc = "wait" /\ sweep.cancelled
    /\ sweep' = [sweep EXCEPT !.pc = "done"]
    /\ UNCHANGED <<now, kind, ttl, data, store, ret, calls, hist, dret, multi>>

\* the owner of the context cancels it
Cancel ==
    /\ MapRuns
    /\ ~sweep.cancelled
    /\ sweep' = [sweep EXCEPT !.cancelled = TRUE]
    /\ UNCHANGED <<now, kind, ttl, data, store, ret, calls, hist, dret, multi>>

SweepStep == SweepBegin \/ SweepExamine \/ SweepDelete \/ SweepWait \/ SweepTick

NextMap == MapSet \/ MapGet \/ SweepStep \/ SweepExit \/ Cancel \/ Tick

SpecMap == InitMap /\ [][NextMap]_vars

\* The task is scheduled again and again and its ticker keeps firing; a
\* select with both cases ready picks either, so it does not pick the
\* ticker for ever.
FairSpecMap == SpecMap /\ WF_vars(SweepStep) /\ SF_vars(SweepExit)

\* ------------------------------------------- overlapping calls of a wrapper
\* Two goroutines call the function cache.Func returned, each once, with no
\* synchronization.  The value is a string: the two words of its header
\* (pointer, length) are written one after the other, so that an
\* unsynchronized reader or a second writer can meet a header that no single
\* assignment wrote.
Procs == {1, 2}

\* what the producer returns to each caller
RaceResults == <<(<<"a">>), (<<"b", "b">>)>>

\* the header of the string v
Header(v) == [ptr |-> v, len |-> Len(v)]

\* the string a header denotes; a length beyond the bytes the pointer owns
\* reads memory that belongs to something else
ValueOf(h) == [i \in 1..h.len |-> IF i <= Len(h.ptr) THEN h.ptr[i] ELSE "?"]

\* the Data as the methods that do not look at single words see it
Whole(d) == [value |-> ValueOf(d.value), lastSet |-> d.lastSet]

NoRaceCall ==
    [pc |-> "idle", stale |-> FALSE, overlap |-> FALSE, invoked |-> 0,
     ok |-> FALSE, val |-> Empty, loadErr |-> NilErr, setOverlap |-> FALSE]

\* the values the Data can hold when the two calls start: never set, or set
\* at time 1
RaceInitData ==
    {[value |-> Header(Empty), lastSet |-> ZeroTime],
     [value |-> Header(<<"c">>), lastSet |-> 1]}

InitRace ==
    /\ now = 1
    /\ kind = "Race"
    /\ ttl \in {Forever, 1}
    /\ data \in RaceInitData
    /\ store = NoFile
    /\ ret = [g \in Procs |-> NoRaceCall]
    /\ calls = 0
    /\ hist = [lastSet |-> 0]
    /\ dret = NoOp
    /\ multi = NoMulti
    /\ sweep = NoSweep

Other(g) == 3 - g

Running(g) == ret[g].pc \notin {"idle", "done"}

InSet(g) == ret[g].pc \in {"setLen", "setTime", "setStore"}

\* a goroutine calls the wrapper
RaceStart(g) ==
    /\ ret[g].pc = "idle"
    /\ ret' = [ret EXCEPT ![g] =
                  [NoRaceCall EXCEPT
                      !.pc = "load",
                      !.stale = IsUnset(data) \/ IsExpired(data, ttl, now),
                      !.overlap = Running(Other(g))]]
    /\ calls' = calls + 1
    /\ UNCHANGED <<now, kind, ttl, data, store, hist, dret, multi, sweep>>

\* loadErr := data.Load(ctx)
RaceLoad(g) ==
    /\ ret[g].pc = "load"
    /\ LET l == Load(Whole(data), TRUE, store, FALSE) IN
       /\ data' = IF l.d = Whole(data) THEN data
                  ELSE [value |-> Header(l.d.value), lastSet |-> l.d.lastSet]
       /\ ret' = [ret EXCEPT ![g].pc = "decide", ![g].loadErr = l.err]
    /\ UNCHANGED <<now, kind, ttl, store, calls, hist, dret, multi, sweep>>

\* if read.forceRefresh || data.IsUnset() || data.IsExpired(ttl), with
\* no option given
RaceDecide(g) ==
    /\ ret[g].pc = "decide"
    /\ ret' = IF MustRecompute(data, ttl, now, FALSE)
              THEN [ret EXCEPT ![g].pc = "fn", ![g].invoked = 1]
              ELSE [ret EXCEPT ![g].pc = "done", ![g].ok = TRUE,
                               ![g].val = ValueOf(Get(data))]
    /\ UNCHANGED <<now, kind, ttl, data, store, calls, hist, dret, multi, sweep>>

\* got, err := fn(ctx) returns; with an error the call returns data.Get()
RaceFn(g) ==
    /\ ret[g].pc = "fn"
    /\ \E ok \in BOOLEAN :
          ret' = IF ok
                 THEN [ret EXCEPT ![g].pc = "setPtr", ![g].ok = TRUE]
                 ELSE [ret EXCEPT ![g].pc = "done",
                                  ![g].val = ValueOf(Get(data))]
    /\ UNCHANGED <<now, kind, ttl, data, store, calls, hist, dret, multi, sweep>>

\* d.value = a, first word
RaceSetPtr(g) ==
    /\ ret[g].pc = "setPtr"
    /\ data' = [data EXCEPT !.value.ptr = RaceResults[g]]
    /\ ret' = [ret EXCEPT ![g].pc = "setLen",
                          ![g].setOverlap = InSet(Other(g)),
                          ![Other(g)].setOverlap = @ \/ InSet(Other(g))]
    /\ UNCHANGED <<now, kind, ttl, store, calls, hist, dret, multi, sweep>>

\* d.value = a, second word
RaceSetLen(g) ==
    /\ ret[g].pc = "setLen"
    /\ data' = [data EXCEPT !.value.len = Len(RaceResults[g])]
    /\ ret' = [ret EXCEPT ![g].pc = "setTime"]
    /\ UNCHANGED <<now, kind, ttl, store, calls, hist, dret, multi, sweep>>

\* d.lastSet = time.Now()
RaceSetTime(g) ==
    /\ ret[g].pc = "setTime"
    /\ data' = [data EXCEPT !.lastSet = now]
    /\ ret' = [ret EXCEPT ![g].pc = "setStore"]
    /\ UNCHANGED <<now, kind, ttl, store, calls, hist, dret, multi, sweep>>

\* raw, err := d.Bytes(); err = d.store.Set(ctx, d.key, raw): Set returns
RaceSetStore(g) ==
    /\ ret[g].pc = "setStore"
    /\ store' = StoreSet(store, Bytes(ValueOf(data.value), FALSE).raw, now,
                         FALSE).s
    /\ hist' = [hist EXCEPT !.lastSet = g]
    /\ ret' = [ret EXCEPT ![g].pc = "return"]
    /\ UNCHANGED <<now, kind, ttl, data, calls, dret, multi, sweep>>

\* return data.Get(), nil, nil
RaceReturn(g) ==
    /\ ret[g].pc = "return"
    /\ ret' = [ret EXCEPT ![g].pc = "done", ![g].val = ValueOf(Get(data))]
    /\ UNCHANGED <<now, kind, ttl, data, store, calls, hist, dret, multi, sweep>>

RaceStep(g) ==
    \/ RaceStart(g) \/ RaceLoad(g) \/ RaceDecide(g) \/ RaceFn(g)
    \/ RaceSetPtr(g) \/ RaceSetLen(g) \/ RaceSetTime(g) \/ RaceSetStore(g)
    \/ RaceReturn(g)

NextRace == (kind = "Race" /\ \E g \in Procs : RaceStep(g)) \/ Tick

SpecRace == InitRace /\ [][NextRace]_vars

\* =================================================================
\* Properties
\* =================================================================

\* the last call was made on a wrapper with a finite TTL, without options,
\* and it found a value set (by an earlier call or by its own Load)
PlainCallOnSetValue ==
    /\ ret.made
    /\ ttl # Forever
    /\ ~ret.in.force /\ ~ret.in.refresh
    /\ ~IsUnset(ret.seen)

\* C1 as stated: with a finite TTL d and no options, a call finding a value
\* set at t0 invokes the producer exactly when now >= t0 + d.
C1_RecomputeFromTTL ==
    PlainCallOnSetValue =>
        (ret.invoked = 1 <=> ret.at >= ret.seen.lastSet + ttl)

\* C1 amended: with a finite TTL d and no options, a call finding a value
\* set at t0 invokes the producer exactly when now > t0 + d; at now = t0 + d
\* the value is still served.
C1_RecomputeAfterTTL ==
    PlainCallOnSetValue =>
        (ret.invoked = 1 <=> ret.at > ret.seen.lastSet + ttl)

\* a plain call exactly at t0 + d, served from the cache
C1_Witness ==
    /\ PlainCallOnSetValue
    /\ ret.at = ret.seen.lastSet + ttl
    /\ ret.invoked = 0
    /\ ret.val = ret.seen.value

\* C2: with TTL = Forever and no forceRefresh, a call that finds the value
\* set (by a producer success or by Load) never invokes the producer, however
\* much time has passed.
C2_ForeverNeverRecomputes ==
    (ret.made /\ ttl = Forever /\ ~ret.in.force /\ ~IsUnset(ret.seen))
        => ret.invoked = 0 /\ ret.val = ret.seen.value

\* a third call, long after the value was set, served under TTL = Forever
C2_Witness ==
    /\ ret.made /\ ttl = Forever /\ ~ret.in.force
    /\ ~IsUnset(ret.seen)
    /\ ret.at - ret.seen.lastSet >= 2
    /\ calls = 3
    /\ ret.invoked = 0

\* the last call invoked the producer and the producer failed
ProducerFailed == ret.made /\ ret.invoked = 1 /\ ~ret.in.out.ok

\* C3 as stated: when the producer fails, the call returns the value cached
\* before the call with a non-nil producer error, and the cached value and
\* lastSet are as before the call.
C3_FailureKeepsPreCallState ==
    ProducerFailed =>
        /\ ret.val = ret.pre.value
        /\ ret.err # NilErr
        /\ data = ret.pre

\* C3 amended: when the producer fails, the call returns the value cached
\* when the producer was invoked (the value held before the call, or the one
\* this call's Load read from the Store into an unset value) with the
\* producer's error; the value stays that one, and lastSet is the one Load
\* left unless the call's refreshTTL step reset it to the call time.
C3_FailureKeepsCachedValue ==
    ProducerFailed =>
        /\ ret.val = ret.seen.value
        /\ ret.err = FnErr
        /\ data.value = ret.seen.value
        /\ data.lastSet = (IF ret.reset THEN ret.at ELSE ret.seen.lastSet)
        /\ ~ret.loaded => ret.seen = ret.pre

\* a failed recompute of an expired value set by an earlier call
C3_Witness ==
    /\ ProducerFailed
    /\ ~ret.in.force
    /\ ret.pre.value # Empty
    /\ ret.val = ret.pre.value
    /\ data = ret.pre

\* C4: a call with forceRefresh invokes the producer once, whatever the
\* freshness; on success it returns the producer's result.
C4_ForceRefreshInvokes ==
    (ret.made /\ ret.in.force) =>
        /\ ret.invoked = 1
        /\ ret.in.out.ok => ret.val = ret.in.out.v /\ ret.err = NilErr
        /\ ret.in.out.ok => data.value = ret.in.out.v

\* forceRefresh on a value set at this very instant under TTL = Forever
C4_Witness ==
    /\ ret.made /\ ret.in.force
    /\ ttl = Forever
    /\ ~IsUnset(ret.pre) /\ ret.pre.lastSet = ret.at
    /\ ret.in.out.ok /\ ret.in.out.v # ret.pre.value
    /\ ret.val = ret.in.out.v

\* the last call had refreshTTL and found a value set and not expired
RefreshOnFresh ==
    /\ ret.made
    /\ ret.in.refresh
    /\ ~IsUnset(ret.seen)
    /\ ~IsExpired(ret.seen, ttl, ret.at)

C6_SetNeverRollsBack ==
    dret.op = "Set" =>
        /\ data = [value |-> dret.arg, lastSet |-> dret.at]
        /\ dret.setFails => dret.err.kind = ErrExternalCache
        /\ dret.bytesFails => dret.err.kind = ErrNotSerializable
        /\ (~dret.setFails /\ ~dret.bytesFails) => dret.err = NilErr

\* a Set whose Store write failed, over an older different value
C6_Witness ==
    /\ dret.op = "Set"
    /\ dret.setFails
    /\ ~IsUnset(dret.pre)
    /\ dret.pre.value # dret.arg
    /\ dret.pre.lastSet < dret.at
    /\ data.value = dret.arg

\* the last call's producer succeeded and its Set failed
SetFailedAfterProducer ==
    /\ ret.made /\ kind = "Func"
    /\ ret.invoked = 1 /\ ret.in.out.ok
    /\ ret.in.setFails \/ ret.in.bytesFails

\* C7: when the producer succeeds and Set fails, the call returns the
\* producer's result, the Store error as cache error and a nil producer
\* error; the producer's error is never the cache error, and a Store or
\* encoding error is never the producer error.
C7_ErrorChannels ==
    /\ SetFailedAfterProducer =>
           /\ ret.val = ret.in.out.v
           /\ ret.cacheErr.kind \in {ErrExternalCache, ErrNotSerializable}
           /\ ret.err = NilErr
           /\ data.value = ret.in.out.v
    /\ ret.cacheErr # FnErr
    /\ ret.err \in {NilErr, FnErr}

\* a call whose producer replaced an older value and whose Store write failed
C7_Witness ==
    /\ SetFailedAfterProducer
    /\ ret.in.setFails
    /\ ~IsUnset(ret.seen) /\ ret.seen.value # ret.in.out.v
    /\ ret.cacheErr.kind = ErrExternalCache

\* the last operation was a Load of an unset value whose Store reported a
\* clean miss: no data, zero timestamp, no error
LoadOnCleanMiss ==
    /\ dret.op = "Load"
    /\ kind = "Data"
    /\ IsUnset(dret.pre)
    /\ ~dret.getFails
    /\ StoreGet(store, FALSE) = [raw |-> <<>>, lastUpdate |-> ZeroTime, err |-> NilErr]

\* C8 as stated: Load on a clean miss returns no error and the value stays
\* unset.
C8_CleanMissNoError ==
    LoadOnCleanMiss => dret.err = NilErr /\ IsUnset(data)

\* C8 amended: Load on a clean miss returns the external-cache error "last
\* update was not set", and the value stays unset.
C8_CleanMissIsCacheError ==
    LoadOnCleanMiss =>
        /\ dret.err = Wrap(ErrExternalCache, "last update was not set")
        /\ data = dret.pre
        /\ IsUnset(data)

\* a Load that read a Store holding nothing for the key
C8_Witness ==
    /\ LoadOnCleanMiss
    /\ dret.read
    /\ dret.err.kind = ErrExternalCache

\* C9: a store-backed wrapper whose Store held nothing for the key and whose
\* producer has always failed returns, on every call, the empty value, a
\* non-nil producer error and a non-nil cache error.
C9_MissAndFailureBothReported ==
    (ret.made /\ kind = "Func" /\ ~hist.hadFile /\ ~hist.fnOk) =>
        /\ ret.invoked = 1
        /\ ret.val = Empty
        /\ ret.err # NilErr
        /\ ret.cacheErr # NilErr

\* the third failing call on an empty Store whose reads all worked
C9_Witness ==
    /\ ret.made /\ kind = "Func" /\ ~hist.hadFile /\ ~hist.fnOk
    /\ calls = 3
    /\ ~ret.in.getFails
    /\ store = NoFile
    /\ ret.cacheErr = Wrap(ErrExternalCache, "last update was not set")

\* C10 as stated: over all calls of one wrapper the Store's Get is invoked at
\* most once.
C10_StoreReadOnce == hist.gets <= 1

\* C10 amended: a call invokes the Store's Get once if it starts with the
\* value unset and a Store attached, and not at all otherwise; so the Store
\* is not read again once the value is set, and is read again by every call
\* while the reads miss or fail and the producer fails.
C10_StoreReadWhileUnset ==
    /\ ret.made => (ret.read <=> (kind = "Func" /\ IsUnset(ret.pre)))
    /\ hist.gets <= calls

\* a second read of the Store, after a miss and a failed producer
C10_Witness ==
    /\ ret.made /\ ret.read
    /\ hist.gets = 2
    /\ calls = 2
    /\ ~hist.fnOk
    /\ IsUnset(data)

\* the last call's Load reported an error: the Store read failed or missed,
\* or the bytes read did not decode
LoadFailed == ret.made /\ kind = "Func" /\ ret.read /\ ret.loadErr # NilErr

\* C11: a Store read failure or a decoding failure in Load does not abort
\* the call: the value is still unset after Load, the producer is invoked in
\* that call, and on its success the result is returned and cached in memory.
C11_LoadFailureDoesNotAbort ==
    LoadFailed =>
        /\ IsUnset(ret.seen) /\ ret.seen = ret.pre
        /\ ret.invoked = 1
        /\ ret.in.out.ok =>
              /\ ret.val = ret.in.out.v
              /\ ret.err = NilErr
              /\ data = [value |-> ret.in.out.v, lastSet |-> ret.end]

\* a call under TTL = Forever whose Load could not decode the file and whose
\* producer then succeeded
C11_Witness ==
    /\ LoadFailed
    /\ ttl = Forever
    /\ ret.loadErr.kind = ErrNotSerializable
    /\ ret.in.out.ok
    /\ data.value = ret.in.out.v

\* C12: every call whose Store read failed returns a non-nil cache error,
\* also when the producer and the Store write then succeed.
C12_LoadErrorAlwaysReported ==
    (ret.made /\ kind = "Func" /\ ret.read /\ ret.in.getFails)
        => ret.cacheErr # NilErr

\* the last operation loaded, without a read failure, into a fresh instance
\* over a Store to which a Set had committed a value
LoadAfterCommit ==
    /\ dret.op = "Load"
    /\ kind = "Data"
    /\ IsUnset(dret.pre)
    /\ ~dret.getFails
    /\ dret.committed.ok

\* C13: a value committed by Set through a Store and then loaded into a
\* fresh Data of the same key is returned by Get unchanged, and lastSet is the
\* Store's write time, not the time of the Load.
C13_RoundTrip ==
    LoadAfterCommit =>
        /\ dret.err = NilErr
        /\ Get(data) = dret.committed.v
        /\ data.lastSet = dret.committed.at

\* a Load made after the write, in a fresh instance
C13_Witness ==
    /\ LoadAfterCommit
    /\ dret.at > dret.committed.at
    /\ Get(data) = dret.committed.v
    /\ data.lastSet = dret.committed.at

\* the last call was the first call of a store-backed wrapper whose Store
\* held a decodable value for the key; no forceRefresh, and the read worked
WarmStart ==
    /\ ret.made /\ kind = "Func" /\ calls = 1
    /\ hist.file0 # NoFile
    /\ Unmarshal(hist.file0.raw).err = NilErr
    /\ ~ret.in.force
    /\ ~ret.in.getFails

\* the age, at the last call, of the file the Store held at the start
FileAge == ret.at - hist.file0.modTime

\* C14: on a warm start the first call returns the stored value without
\* invoking the producer if the stored value's age is within the TTL, and
\* invokes the producer if its age exceeds the TTL.
C14_WarmStart ==
    WarmStart =>
        /\ (ttl = Forever \/ FileAge <= ttl) =>
              /\ ret.invoked = 0
              /\ ret.val = Unmarshal(hist.file0.raw).v
              /\ ret.cacheErr = NilErr /\ ret.err = NilErr
        /\ (ttl # Forever /\ FileAge > ttl) => ret.invoked = 1

\* a first call served from a file one tick old
C14_Witness ==
    /\ WarmStart
    /\ ttl # Forever /\ FileAge = 1
    /\ ret.invoked = 0
    /\ ret.val = <<"a">>

\* the last call recomputed successfully and its Store write succeeded
RecomputedAndWritten ==
    /\ ret.made /\ kind = "Func"
    /\ ret.invoked = 1 /\ ret.in.out.ok
    /\ ret.wrote /\ ~ret.in.setFails

\* C15: after a call that recomputed and wrote, the Store's file for the key
\* holds exactly the JSON encoding of the returned value, nothing more.
C15_FileHoldsEncodedValue ==
    RecomputedAndWritten =>
        /\ store.raw = <<Quote>> \o ret.val \o <<Quote>>
        /\ store.modTime = ret.end
        /\ ret.cacheErr = NilErr

\* a recompute that replaced a file holding another value
C15_Witness ==
    /\ RecomputedAndWritten
    /\ hist.file0.raw = <<Quote, "a", Quote>>
    /\ ret.val = <<"b">>
    /\ store.raw = <<Quote, "b", Quote>>

\* the last operation on the MultiStore was a Get
GotMulti == multi.last.op = "Get"

\* the timestamp the read of store i returned to that Get
ReturnedStamp(i) ==
    IF multi.last.modes[i] = "err" THEN ZeroTime ELSE multi.stores[i].modTime

\* store i returned an entry written less than expire before the Get
FreshAt(i) ==
    /\ ReturnedStamp(i) # ZeroTime
    /\ multi.last.at - ReturnedStamp(i) < multi.expire

FreshStores == {i \in 1..NStores : FreshAt(i)}

\* C16: MultiStore.Get returns the data and timestamp of the first store, in
\* configured order, whose returned timestamp has age less than the expire
\* window, with a nil error even if earlier reads failed, and reads no store
\* after that one.
C16_FirstFreshStoreWins ==
    GotMulti /\ FreshStores # {} =>
        LET h == CHOOSE i \in FreshStores : \A j \in FreshStores : i <= j IN
        /\ multi.last.hit = h
        /\ multi.last.raw = multi.stores[h].raw
        /\ multi.last.lastUpdate = multi.stores[h].modTime
        /\ multi.last.err = NilErr
        /\ multi.last.reads = h

\* the read of the first store failed, the second store's entry is fresh and
\* is what Get returned
C16_Witness ==
    /\ GotMulti
    /\ NStores >= 2
    /\ multi.last.modes[1] = "err"
    /\ multi.last.hit = 2
    /\ multi.last.raw = multi.stores[2].raw
    /\ multi.last.raw # <<>>
    /\ multi.last.err = NilErr

\* C17: in MultiStore.Get a store whose read returned an error is never the
\* source of the returned hit, even if it also returned a fresh timestamp.
C17_ErroringStoreNeverHit ==
    GotMulti /\ multi.last.hit > 0 => multi.last.modes[multi.last.hit] = "ok"

\* the messages of the failed reads from store i on, joined in store order
RECURSIVE FailedReads(_)
FailedReads(i) ==
    IF i > NStores THEN ""
    ELSE IF multi.last.modes[i] = "ok" THEN FailedReads(i + 1)
    ELSE LET rest == FailedReads(i + 1) IN
         IF rest = "" THEN ErrNames[i] ELSE ErrNames[i] \o "|" \o rest

\* C18: when no store yields a fresh hit, MultiStore.Get returns nil data
\* and a zero timestamp, with an aggregated error joining every read error
\* if at least one read failed and a nil error if none failed.
C18_MissAggregatesReadErrors ==
    GotMulti /\ FreshStores = {} =>
        /\ multi.last.hit = 0
        /\ multi.last.reads = NStores
        /\ multi.last.raw = <<>>
        /\ multi.last.lastUpdate = ZeroTime
        /\ multi.last.err =
              IF \E i \in 1..NStores : multi.last.modes[i] # "ok"
              THEN [kind |-> "errs", msg |-> "errs: " \o FailedReads(1)]
              ELSE NilErr

\* two reads failed, nothing was fresh, and both errors are in the result
C18_Witness ==
    /\ GotMulti
    /\ NStores >= 2
    /\ multi.last.hit = 0
    /\ multi.last.modes[1] # "ok"
    /\ multi.last.modes[2] # "ok"
    /\ multi.last.err.msg = "errs: e1|e2"

\* C19: MultiStore.Set writes the value to every configured store in order,
\* with no early exit: neither a failure nor a success of one store's write
\* prevents the write to a later store.
C19_SetWritesEveryStore ==
    multi.last.op = "Set" =>
        /\ multi.last.tried = [i \in 1..NStores |-> i]
        /\ \A i \in 1..NStores :
              ~multi.last.fails[i] =>
                  multi.stores[i] = [raw |-> multi.last.arg,
                                     modTime |-> multi.last.at]

\* the write to the first store failed and the second store holds the value
C19_Witness ==
    /\ multi.last.op = "Set"
    /\ NStores >= 2
    /\ multi.last.fails[1]
    /\ ~multi.last.fails[2]
    /\ multi.stores[2].raw = multi.last.arg
    /\ multi.stores[1].raw # multi.last.arg

\* C20: MultiStore.Set and MultiStore.Delete always return a non-nil
\* aggregated error, even when every store operation succeeded, and so a
\* Func wrapper over a MultiStore returns a non-nil cache error (and a nil
\* producer error) on every call that recomputes successfully.
C20_MultiSetAlwaysErrors ==
    /\ multi.last.op \in {"Set", "Delete"} =>
          multi.last.err # NilErr /\ multi.last.err.kind = "errs"
    /\ kind = "FuncMulti" /\ ret.made /\ ret.invoked = 1 /\ ret.in.out.ok =>
          /\ ret.cacheErr # NilErr
          /\ ret.cacheErr.kind = ErrExternalCache
          /\ ret.err = NilErr

\* a call recomputed, every store took the value, and the call still
\* returned a cache error
C20_Witness ==
    /\ kind = "FuncMulti"
    /\ ret.made /\ ret.invoked = 1 /\ ret.in.out.ok
    /\ \A i \in 1..NStores :
          /\ ~multi.last.fails[i]
          /\ multi.stores[i].raw = Marshal(ret.val)
    /\ ret.cacheErr = Wrap(ErrExternalCache, "errs: ")

\* the derived key an input is expected to have: x1 and x2 share one
ExpectedKey(in) ==
    IF in \in {"x1", "x2"} THEN "k1" ELSE IF in = "y" THEN "k2" ELSE ""

\* a step is a call of the memoized function
MemoStep == kind = "Memo" /\ calls' # calls

\* the entry of key k as the call finds it, once its TTL refresh is done
RefreshedEntry(k) ==
    IF ret'.refresh THEN [data.at[k] EXCEPT !.lastSet = now] ELSE data.at[k]

\* C21: in the memoized wrapper each derived key has its own cached value
\* and freshness clock: a call for one key leaves the entry of every other
\* key unchanged, and the call is served or recomputed according to the
\* state of its own key only.
C21_KeysAreIndependent ==
    [][MemoStep =>
          LET k == ExpectedKey(ret'.arg) IN
          /\ \A b \in Keys \ {k} :
                /\ data'.at[b] = data.at[b]
                /\ b \in data'.keys <=> b \in data.keys
          /\ ~ret'.crashed =>
                (ret'.invoked = 1 <=>
                    \/ ret'.force
                    \/ RefreshedEntry(k).lastSet = ZeroTime
                    \/ /\ ttl # Forever
                       /\ now - RefreshedEntry(k).lastSet > ttl)]_vars

\* a call for k1 recomputed while k2 holds a value set at another time
C21_Witness ==
    /\ kind = "Memo"
    /\ ret.made /\ ret.arg = "x1" /\ ret.invoked = 1 /\ ret.out.ok
    /\ "k2" \in data.keys
    /\ data.at["k2"].value = <<"b">>
    /\ data.at["k2"].lastSet < data.at["k1"].lastSet

\* C22: a keyed cache holds one Cached Value per derived key, created on the
\* first access: a call adds at most the entry of its input's derived key,
\* and a call without ForceRefresh whose derived key already has a value
\* within the TTL returns that value without invoking the producer,
\* whichever input with that key stored it.
C22_OneEntryPerDerivedKey ==
    [][MemoStep /\ ExpectedKey(ret'.arg) \in Keys =>
          LET k == ExpectedKey(ret'.arg) IN
          /\ data'.keys = data.keys \cup {k}
          /\ (/\ k \in data.keys
              /\ data.at[k].lastSet # ZeroTime
              /\ ttl = Forever \/ now - data.at[k].lastSet <= ttl
              /\ ~ret'.force)
             => ret'.invoked = 0 /\ ret'.val = data.at[k].value]_vars

\* the entry of k1 was created by a call with x1, and a later call with x2
\* got its value without invoking the producer
C22_Witness ==
    /\ kind = "Memo"
    /\ hist["k1"] = "x1"
    /\ ret.made /\ ret.arg = "x2" /\ ~ret.refresh
    /\ ret.invoked = 0
    /\ ret.val = <<"b">>
    /\ data.keys = {"k1"}

\* C23: a call whose input cannot be converted to a derived key is aborted
\* with the key-conversion error: it does not crash and does not invoke the
\* producer.
C23_BadKeyAbortsCall ==
    kind = "Memo" /\ ret.made /\ ret.arg = "bad" =>
        /\ ~ret.crashed
        /\ ret.invoked = 0
        /\ ret.cacheErr.kind = ErrFailedKey

\* the Map holds an entry for k that is expired now
ExpiredEntry(k) ==
    /\ k \in data.keys
    /\ ttl # Forever
    /\ now - data.at[k].lastSet > ttl

\* C24: while the eviction sweep is not cancelled, every Map entry that
\* becomes expired is eventually removed from the mapping by a sweep pass.
C24_ExpiredEventuallySwept ==
    \A k \in Keys :
        (kind = "Map" /\ ExpiredEntry(k) /\ ~sweep.cancelled)
            ~> (k \notin data.keys \/ ~ExpiredEntry(k) \/ sweep.cancelled)

\* C25: the eviction sweep removes only expired entries: an entry whose age
\* is within the TTL is never removed from the mapping, and with TTL =
\* Forever no entry is.
C25_SweepRemovesOnlyExpired ==
    [][kind = "Map" =>
          \A k \in Keys : k \in data.keys /\ k \notin data'.keys => ExpiredEntry(k)]_vars

\* C26: the eviction task terminates after its context is cancelled, and
\* never terminates while the context is not cancelled.
C26_SweepEndsOnCancel ==
    /\ (kind = "Map" /\ sweep.cancelled) ~> sweep.pc = "done"
    /\ [](kind = "Map" /\ sweep.pc = "done" => sweep.cancelled)

\* C27: accesses to the mapping are mutually exclusive: no Set or Get of a
\* caller is made while the eviction task ranges over the mapping.
C27_MapAccessExclusive ==
    kind = "Map" => ~ret.overlap

\* C28: a Map built by NewMap with a Store caches through it: after every
\* successful Map.Set(k, v) the Store holds the encoding of v under k.
C28_MapSetWritesStore ==
    kind = "Map" /\ ret.op = "Set" /\ ret.ok =>
        store[ret.key].raw = Marshal(ret.val)

\* C29: SkipErr and LogErr return exactly the wrapped function's value and
\* producer error, never the cache error; LogErr calls the logging callback
\* once with the cache error when it is non-nil and not at all when it is
\* nil, and SkipErr logs nothing.
C29_ReductionsKeepValueAndError ==
    kind \in {"SkipErr", "LogErr"} /\ ret.made =>
        /\ dret.val = ret.val
        /\ dret.err = ret.err
        /\ dret.logs = IF kind = "LogErr" /\ ret.cacheErr # NilErr
                       THEN <<ret.cacheErr>> ELSE <<>>

\* the wrapped function returned a value and a cache error: LogErr returned
\* the value with a nil error and logged the cache error once
C29_Witness ==
    /\ kind = "LogErr"
    /\ ret.made
    /\ ret.cacheErr # NilErr /\ ret.err = NilErr
    /\ dret.val = <<"b">>
    /\ dret.err = NilErr
    /\ dret.logs = <<ret.cacheErr>>

\* C30: FireStore.Get on a key whose document does not exist is a clean
\* miss: nil data, the zero timestamp and a nil error.
C30_FireStoreCleanMiss ==
    kind = "FireStore" /\ dret.op = "Get" /\ store = NoFile /\ ~dret.getFails =>
        /\ dret.raw = <<>>
        /\ dret.lastUpdate = ZeroTime
        /\ dret.err = NilErr

\* C31: a call with refreshTTL resets the TTL clock only of a value that is
\* set and not expired.  Here for the memoized wrapper: on a never-set entry
\* the call invokes the producer and the entry stays unset unless the
\* producer succeeds; on an expired entry the call invokes the producer and
\* the clock moves only if the producer succeeds.
C31_RefreshOnlySetAndFresh ==
    [][MemoStep /\ ret'.refresh /\ ~ret'.crashed =>
          LET k == ExpectedKey(ret'.arg)
              d == data.at[k]
              expired == /\ d.lastSet # ZeroTime
                         /\ ttl # Forever
                         /\ now - d.lastSet > ttl
          IN /\ d.lastSet = ZeroTime \/ expired => ret'.invoked = 1
             /\ d.lastSet = ZeroTime \/ expired =>
                   (ret'.out.ok \/ data'.at[k].lastSet = d.lastSet)]_vars

\* C32: lastSet of a Cached Value is zero if and only if the value was never
\* set: no operation makes lastSet non-zero while the value is still the
\* never-set empty value, and none resets lastSet to zero.
C32_LastSetZeroIffNeverSet ==
    kind \in {"Data", "DataNil"} =>
        (data.lastSet = ZeroTime <=> data.value = Empty)

\* a call of a single-key wrapper returns in this step
WrapperStep == kind \in {"InMemory", "Func"} /\ calls' # calls

\* the last call invoked the producer on an unset value and the producer failed
FailedOnUnset ==
    /\ kind \in {"InMemory", "Func"}
    /\ ret.made /\ ret.invoked = 1 /\ ~ret.in.out.ok
    /\ IsUnset(ret.seen)

\* C33 as stated: after a call whose producer failed on an unset value the
\* value is still unset, and the next call, whatever the TTL, invokes the
\* producer exactly once.
C33_FailedProducerRetried ==
    [][FailedOnUnset =>
          /\ IsUnset(data)
          /\ WrapperStep => ret'.invoked = 1]_vars

\* C33 amended: after a call whose producer failed on an unset value the
\* value is still unset, and the next call invokes the producer exactly once
\* unless its Load obtains a value from the Store; no call invokes the
\* producer more than once.
C33_FailedProducerNotCached ==
    [][/\ FailedOnUnset =>
             /\ IsUnset(data)
             /\ WrapperStep /\ IsUnset(ret'.seen) => ret'.invoked = 1
       /\ WrapperStep => ret'.invoked \in {0, 1}]_vars

\* a call under Forever invoked the producer again after a failed call
C33_Witness ==
    /\ kind \in {"InMemory", "Func"}
    /\ ttl = Forever
    /\ calls >= 2
    /\ ret.made /\ IsUnset(ret.pre) /\ IsUnset(ret.seen)
    /\ ret.invoked = 1 /\ ~ret.in.force

\* C34: a wrapper call that does not recompute (value set, not expired, no
\* forceRefresh) returns the current cached value with a nil cache error and
\* a nil producer error, and neither reads nor writes the Store.
C34_ServedFromMemory ==
    [][/\ WrapperStep
       /\ ~IsUnset(data)
       /\ ttl = Forever \/ now - data.lastSet <= ttl
       /\ ~ret'.in.force
       => /\ ret'.invoked = 0
          /\ ret'.val = data.value /\ data'.value = data.value
          /\ ret'.cacheErr = NilErr /\ ret'.err = NilErr
          /\ ~ret'.read /\ ~ret'.wrote
          /\ hist'.gets = hist.gets
          /\ store' = store]_vars

\* a call on a Store-backed wrapper was served from memory
C34_Witness ==
    /\ kind = "Func" /\ store # NoFile
    /\ ret.made /\ ~IsUnset(ret.pre) /\ ~ret.in.force
    /\ ret.invoked = 0 /\ ret.val = ret.pre.value /\ ret.val # Empty

\* C35: Data.IsExpired(ttl) is false when ttl is Forever, even for a never-set
\* value; for any other ttl it is true exactly when now - lastSet > ttl, a
\* never-set value being expired for every finite ttl.
C35_IsExpired ==
    kind \in {"Data", "DataNil"} /\ dret.op = "IsExpired" =>
        /\ ttl = Forever => ~dret.expired
        /\ ttl # Forever /\ dret.pre.lastSet = ZeroTime => dret.expired
        /\ ttl # Forever /\ dret.pre.lastSet # ZeroTime =>
              (dret.expired <=> dret.at - dret.pre.lastSet > ttl)

\* IsExpired answered false on a value whose age is exactly the ttl
C35_Witness ==
    /\ kind \in {"Data", "DataNil"} /\ dret.op = "IsExpired"
    /\ ttl # Forever
    /\ dret.pre.lastSet # ZeroTime
    /\ dret.at - dret.pre.lastSet = ttl
    /\ ~dret.expired

\* d.ResetTTL() returns in this step
ResetTTLStep ==
    /\ kind \in {"Data", "DataNil"}
    /\ dret' # dret /\ dret'.op = "ResetTTL"

\* C36: ResetTTL changes only lastSet, to the current time: the value stays
\* and nothing is written to the Store, so the Store's own write time is not
\* extended and a later Load by a fresh instance takes the original write
\* time.
C36_ResetTTLOnlyMovesClock ==
    [][/\ ResetTTLStep =>
             /\ data'.value = data.value
             /\ data'.lastSet = now
             /\ store' = store
       /\ /\ kind = "Data" /\ dret' # dret /\ dret'.op = "Load"
          /\ IsUnset(data) /\ ~IsUnset(data')
          => data'.lastSet = store.modTime /\ store' = store]_vars

\* the clock of a stored value was reset after the Store was written
C36_Witness ==
    /\ kind = "Data" /\ dret.op = "ResetTTL"
    /\ store # NoFile
    /\ dret.committed.ok /\ store.modTime = dret.committed.at
    /\ data.value = dret.committed.v
    /\ dret.pre.lastSet = store.modTime
    /\ data.lastSet > store.modTime

\* C37: within one call of a wrapper the Load step (the Store read) precedes
\* the producer and Set follows both: the decision to invoke the producer is
\* taken on the value as Load left it, a failed producer returns that value,
\* and a successful one is committed over it at the time the producer
\* returned.  Load never overwrites a value already set in memory.
C37_LoadThenProducerThenSet ==
    kind = "Func" /\ ret.made =>
        /\ ret.invoked = 1 <=>
              \/ ret.in.force
              \/ IsUnset(ret.seen)
              \/ ttl # Forever /\ ret.at - ret.seen.lastSet > ttl
        /\ ret.invoked = 1 /\ ~ret.in.out.ok =>
              ret.val = ret.seen.value /\ data.value = ret.seen.value
        /\ ret.invoked = 1 /\ ret.in.out.ok =>
              /\ data = [value |-> ret.in.out.v, lastSet |-> ret.end]
              /\ ret.end >= ret.at
              /\ ret.wrote /\ ret.cacheErr = NilErr =>
                    store = [raw |-> Marshal(ret.in.out.v), modTime |-> ret.end]
        /\ ~IsUnset(ret.pre) =>
              ~ret.read /\ ~ret.loaded /\ ret.seen = ret.pre

\* a call loaded a value from the Store, then invoked the producer, then
\* committed the producer's result over the loaded value
C37_Witness ==
    /\ kind = "Func" /\ ret.made
    /\ ret.read /\ ret.loaded
    /\ ret.invoked = 1 /\ ret.in.out.ok /\ ret.in.dt = 1
    /\ ret.wrote /\ ret.cacheErr = NilErr
    /\ ret.seen.value # ret.in.out.v
    /\ data.value = ret.in.out.v

\* the last call recomputed and its Set failed at the Store
SetFailedAtStore ==
    /\ kind = "Func" /\ ret.made
    /\ ret.invoked = 1 /\ ret.in.out.ok
    /\ ret.wrote /\ ret.in.setFails

\* C40: a Store write failure is reported only by the call that recomputed.
\* That call returns the fresh value with the cache error; the next call
\* within the TTL is served from memory with the fresh value and a nil cache
\* error, and does not write the Store, which stays as it was.
C40_WriteFailureReportedOnce ==
    [][SetFailedAtStore =>
          /\ ret.cacheErr.kind = ErrExternalCache /\ ret.err = NilErr
          /\ ret.val = ret.in.out.v /\ data.value = ret.in.out.v
          /\ /\ WrapperStep
             /\ ~ret'.in.force
             /\ ttl = Forever \/ now - data.lastSet <= ttl
             => /\ ret'.invoked = 0
                /\ ret'.val = ret.in.out.v
                /\ ret'.cacheErr = NilErr /\ ret'.err = NilErr
                /\ ~ret'.wrote
                /\ store' = store]_vars

\* a call was served from memory after the Store write of the recompute
\* before it had failed, and the Store does not hold the value served
C40_Witness ==
    /\ kind = "Func" /\ ret.made
    /\ hist.setFailed
    /\ ret.invoked = 0 /\ ~ret.in.force
    /\ ret.val = data.value /\ ret.cacheErr = NilErr
    /\ store = NoFile \/ store.raw # Marshal(data.value)

\* C39: Map.Get never returns an expired value.  In any interleaving of Set,
\* Get and the steps of the sweep, a Get(k) that returns (v, true) finds an
\* entry for k whose age is within the TTL (or the TTL is Forever) and v is
\* the value of the most recent Set(k); any other Get returns the zero value
\* and false, also while the sweep has not yet removed an expired entry.
C39_GetNeverReturnsExpired ==
    [][kind = "Map" /\ calls' # calls /\ ret'.op = "Get" =>
          LET k == ret'.key IN
          /\ ret'.ok =>
                /\ k \in data.keys
                /\ ttl = Forever \/ now - data.at[k].lastSet <= ttl
                /\ ret'.val = hist[k] /\ ret'.val # Empty
          /\ ~ret'.ok =>
                /\ ret'.val = Empty
                /\ k \notin data.keys \/ ExpiredEntry(k)]_vars

\* Get answered (zero, false) for an expired entry that the sweep, in the
\* middle of a pass, has not removed
C39_Witness ==
    /\ kind = "Map" /\ ret.op = "Get"
    /\ ~ret.ok /\ ret.val = Empty
    /\ ret.overlap
    /\ ExpiredEntry(ret.key)
    /\ hist[ret.key] # Empty

\* both calls have returned, the second one made while the first was running
\* and both made on a value that was unset or expired
BothOverlappedDone ==
    /\ kind = "Race"
    /\ \A g \in Procs : ret[g].pc = "done" /\ ret[g].stale
    /\ \E g \in Procs : ret[g].overlap

\* C38: two overlapping calls of a wrapper on an unset or expired value both
\* invoke the producer, and after both have returned the cached value is the
\* result written by the Set that ran last (either result, if the two Sets
\* ran at the same time).
C38_LastSetWins ==
    BothOverlappedDone =>
        /\ \A g \in Procs : ret[g].invoked = 1
        /\ (\A g \in Procs : ret[g].ok) =>
              IF \E g \in Procs : ret[g].setOverlap
              THEN \E g \in Procs : ValueOf(data.value) = RaceResults[g]
              ELSE ValueOf(data.value) = RaceResults[hist.lastSet]

TypeOK ==
    /\ now \in 1..MaxTime
    /\ ttl \in TTLs
    /\ IF kind \in {"Memo", "Map"}
       THEN \A k \in Keys : data.at[k].lastSet \in 0..MaxTime
       ELSE data.lastSet \in 0..MaxTime
    /\ calls \in 0..MaxCalls
    /\ multi.expire \in 0..MaxTTL
    /\ Len(multi.stores) \in 0..MaxStores
    /\ \A i \in 1..Len(multi.stores) : multi.stores[i].modTime \in 0..MaxTime
====
